---- MODULE Spec2Model ----
(***************************************************************************)
(* Asana integration of OpenHands: the webhook endpoint                    *)
(* (asana_webhooks.py), the task/conversation reconciler                   *)
(* (asana_service.py) and the result reporter (asana_reporter.py).         *)
(*                                                                         *)
(* One action is one run of the code between two suspension points of the  *)
(* event loop (an await that really suspends: settings load, an Asana API  *)
(* call, create_new_conversation, asyncio.sleep).  The host's event stream *)
(* delivers events to a subscriber's callback asynchronously and in order. *)
(***************************************************************************)
EXTENDS Naturals, Sequences, FiniteSets, TLC

\* ------------------------------------------------------------------ bounds
EndpointPosts == 4   \* POSTs in one behaviour of SpecEndpoint
ReconcilePosts == 2  \* deliveries in one behaviour of SpecReconcile
ReporterPosts == 2   \* deliveries in one behaviour of SpecReporter
DedupPosts == 4      \* deliveries in one behaviour of SpecDedup
MappingPosts == 3    \* deliveries in one behaviour of SpecMapping
MaxPending == 1      \* deliveries suspended in the cold settings load at once
MaxFail == 1         \* failures of external collaborators in one behaviour
MaxConvs == 2        \* conversations the host creates in one behaviour
ReporterConvs == 1   \* the same, in a behaviour of SpecReporter
MaxStream == 4       \* length up to which an agent adds events to a stream
MaxHostOps == 1      \* restarts / session closes / mapping removals in one behaviour
AdminRequests == 2   \* webhook management requests in one behaviour
MaxPieces == 2       \* pieces of an agent's last message

\* Stands for _MAX_PROCESSED_EVENTS (asana_webhooks.py:27, 1000 in the source),
\* scaled down so that the eviction branch is reached; the 0.9 factor of the
\* source is kept in KeepAfterEvict.
_MAX_PROCESSED_EVENTS == 2

\* search_events(reverse=True, limit=50) in the catch-up scan
ScanLimit == 50

\* ------------------------------------------------------------- plain values
None == "None"
EmptyStr == ""

\* `if x:` on an optional string: None and '' are both falsy
Truthy(s) == s # None /\ s # EmptyStr

Secrets == {"S1", "S2"}

\* ------------------------------------------------------------ webhook events
\* WebhookEvent: action, resource (resource_type, gid), parent, created_at
Ev(a, rt, g, par, at) ==
  [action |-> a, resource_type |-> rt, gid |-> g, parent |-> par, created_at |-> at]

\* WebhookPayload(**payload_data): a body either parses into an events list or not
Body(evs) == [ok |-> TRUE, events |-> evs]
Malformed == [ok |-> FALSE, events |-> <<>>]

\* hmac.new(secret, body, sha256).hexdigest(): the digest is kept symbolic, a
\* value determined by the key and the message
HmacSha256(secret, body) == [key |-> secret, msg |-> body]

\* a verification that accepts every signature
VerifyAlwaysTrue(body, signature, secret) == TRUE

\* a verification that compares the signed body and not the key
VerifyBodyOnly(body, signature, secret) == signature.msg = body

\* hmac.compare_digest(computed, signature)
verify_webhook_signature(body, signature, secret) ==
  HmacSha256(secret, body) = signature

\* Optional header X-Hook-Signature: <<>> is an absent header, <<d>> carries d
NoSig == <<>>
Sig(d) == <<d>>

\* ---------------------------------------------------------------- variables
VARIABLES
  webhook_secrets,     \* webhook_secrets.get('default', ''): a secret or ''
  settings,            \* the persisted settings record (FileSettingsStore)
  _processed_events,   \* the dedup set
  pending,             \* deliveries suspended in get_webhook_secret_from_settings
  resp,                \* the last request answered, with its response
  jobs,                \* background jobs: the events queued by one delivery
  mapping,             \* asana_task_mapping.json: task gid -> conversation id
  _active_listeners,   \* conversation id -> listener object
  listeners,           \* the AsanaConversationListener objects ever constructed
  convs,               \* the host's conversations (sessions, event streams)
  comments,            \* the comments posted to Asana (a bag)
  attempts,            \* history: reconciler calls per dedup key
  nPosts,              \* history: number of POSTs received
  nFail,               \* history: failures of external collaborators
  escaped,             \* history: exceptions that left process_webhook_event_safe
  nHostOps,            \* history: restarts, session closes, mapping removals
  webhooks,            \* the webhooks registered at Asana (gid: index)
  route,               \* the webhook management request being served
  formatted,           \* format_agent_result: the last message and its HTML
  removed              \* the last remove_conversation_mapping call and its return

vars == <<webhook_secrets, settings, _processed_events, pending, resp, jobs,
          mapping, _active_listeners, listeners, convs, comments, attempts,
          nPosts, nFail, escaped, nHostOps, webhooks, route, formatted,
          removed>>

\* the state of the reconciler and the reporter
coreVars == <<mapping, _active_listeners, listeners, convs, comments>>

\* ------------------------------------------------------ background processes
\* The locals of one run of process_webhook_event_safe(event).  pc names the
\* await the run is suspended in; the other fields are the locals that live
\* across a suspension, and a record of what the run has done so far.
NewProc ==
  [pc |-> "start",
   agent |-> None,        \* asana_settings.agent_user_gid
   task_gid |-> None,
   story_gid |-> None,
   assignee |-> None,     \* task.assignee.gid as fetched (None: unassigned)
   html |-> <<>>,         \* story.html_text as fetched
   all_stories |-> <<>>,  \* what get_task_stories returned
   previous_comments |-> <<>>,
   conv |-> 0,            \* conversation_id being created / existing_conversation_id
   lis |-> 0,             \* the listener built by subscribe_to_conversation_events
   ret |-> None,          \* the caller subscribe_to_conversation_events returns to
   found |-> 0,           \* stream index of the terminal state the scan reports
   arm |-> 0,             \* history: the arming the scan's report was triggered in
   result |-> 0,          \* the conversation id returned (0: None)
   existing |-> 0,        \* what get_conversation_for_task returned
   liked |-> FALSE,       \* the run issued a like
   created |-> 0,         \* the conversation the run created
   delivered |-> FALSE,   \* the run added a message to an existing conversation
   pinned |-> 0]          \* pinned comments the run posted

\* BackgroundTasks runs the tasks of one response one after the other
NewJob(evs) == [queue |-> evs, p |-> NewProc]

RemoveAt(seq, i) == SubSeq(seq, 1, i - 1) \o SubSeq(seq, i + 1, Len(seq))

\* --------------------------------------------------------- webhook endpoint
\* a response that leaves the X-Hook-Secret header out
RespondWithoutEcho(sec, sig, body, status, queued, echo) ==
  resp' = [x_hook_secret |-> sec, x_hook_signature |-> sig, body |-> body,
           status |-> status, queued |-> queued, echo |-> None]

\* the response of asana_webhook, recorded with the request it answers
Respond(sec, sig, body, status, queued, echo) ==
  resp' = [x_hook_secret |-> sec, x_hook_signature |-> sig, body |-> body,
           status |-> status, queued |-> queued, echo |-> echo]

SigTruthy(sig) == sig # NoSig

\* a parser that takes an empty events list for a malformed payload
ParseAndScheduleNoHeartbeat(sec, sig, body) ==
  IF ~body.ok \/ body.events = <<>>
    THEN Respond(sec, sig, body, 400, 0, None) /\ UNCHANGED jobs
    ELSE /\ jobs' = Append(jobs, NewJob(body.events))
         /\ Respond(sec, sig, body, 200, Len(body.events), None)

\* a scheduling loop that stops after the first event
ParseAndScheduleFirstOnly(sec, sig, body) ==
  IF ~body.ok
    THEN Respond(sec, sig, body, 400, 0, None) /\ UNCHANGED jobs
    ELSE IF body.events = <<>>
      THEN Respond(sec, sig, body, 200, 0, None) /\ UNCHANGED jobs
      ELSE /\ jobs' = Append(jobs, NewJob(<<Head(body.events)>>))
           /\ Respond(sec, sig, body, 200, 1, None)

\* asana_webhook, lines 144-163: parse, heartbeat, schedule
ParseAndSchedule(sec, sig, body) ==
  IF ~body.ok
    THEN Respond(sec, sig, body, 400, 0, None) /\ UNCHANGED jobs
    ELSE IF body.events = <<>>
      THEN Respond(sec, sig, body, 200, 0, None) /\ UNCHANGED jobs
      ELSE /\ jobs' = Append(jobs, NewJob(body.events))
           /\ Respond(sec, sig, body, 200, Len(body.events), None)

\* asana_webhook, lines 136-163, once stored_secret is known
VerifyAndSchedule(sec, sig, body, stored_secret) ==
  IF ~Truthy(stored_secret)
    THEN Respond(sec, sig, body, 401, 0, None) /\ UNCHANGED jobs
    ELSE IF ~verify_webhook_signature(body, sig[1], stored_secret)
      THEN Respond(sec, sig, body, 401, 0, None) /\ UNCHANGED jobs
      ELSE ParseAndSchedule(sec, sig, body)

\* asana_webhook up to its response, or up to the await of the settings load
\* when a signed delivery finds no secret in memory
asana_webhook(sec, sig, body) ==
  /\ nPosts' = nPosts + 1
  /\ IF Truthy(sec)
       THEN /\ webhook_secrets' = sec
            /\ Respond(sec, sig, body, 200, 0, sec)
            /\ UNCHANGED <<pending, jobs>>
       ELSE IF SigTruthy(sig)
         THEN IF ~Truthy(webhook_secrets)
                THEN /\ pending' = Append(pending,
                                     [x_hook_secret |-> sec, x_hook_signature |-> sig,
                                      body |-> body])
                     /\ UNCHANGED <<webhook_secrets, resp, jobs>>
                ELSE /\ VerifyAndSchedule(sec, sig, body, webhook_secrets)
                     /\ UNCHANGED <<webhook_secrets, pending>>
         ELSE /\ ParseAndSchedule(sec, sig, body)
              /\ UNCHANGED <<webhook_secrets, pending>>
  /\ UNCHANGED <<settings, webhooks, route,
                 formatted, removed, _processed_events, attempts, nFail, escaped,
                 nHostOps>>
  /\ UNCHANGED coreVars

\* get_webhook_secret_from_settings: the persisted secret, None when it is
\* unset or when the load raises (ok = FALSE)
get_webhook_secret_from_settings(ok) ==
  IF ok /\ Truthy(settings.asana_webhook_secret)
    THEN settings.asana_webhook_secret ELSE None

\* asana_webhook resumed when the settings load returns (lines 130-163)
asana_webhook_resume(i, ok) ==
  /\ i \in 1..Len(pending)
  /\ LET r == pending[i]
         loaded == get_webhook_secret_from_settings(ok)
         stored_secret == IF loaded = None THEN EmptyStr ELSE loaded
     IN /\ webhook_secrets' = IF Truthy(stored_secret) THEN stored_secret
                                                       ELSE webhook_secrets
        /\ VerifyAndSchedule(r.x_hook_secret, r.x_hook_signature, r.body, stored_secret)
  /\ pending' = RemoveAt(pending, i)
  /\ nFail' = IF ok THEN nFail ELSE nFail + 1
  /\ escaped' = escaped
  /\ UNCHANGED <<settings, webhooks, route,
                 formatted, removed, _processed_events, attempts, nPosts, nHostOps>>
  /\ UNCHANGED coreVars

\* ------------------------------------------------------------- small helpers
\* the process of job j moves on
SetProc(j, p) == jobs' = [jobs EXCEPT ![j].p = p]

\* the run of job j returns `result` (0 for None)
Finish(j, p, result) == SetProc(j, [p EXCEPT !.pc = "done", !.result = result])

\* a bag as a function from the elements present to their counts
BagAdd(bag, x) ==
  IF x \in DOMAIN bag THEN [bag EXCEPT ![x] = @ + 1] ELSE bag @@ (x :> 1)

BagCount(bag, x) == IF x \in DOMAIN bag THEN bag[x] ELSE 0

Running(j) == j \in 1..Len(jobs)
At(j, pc) == Running(j) /\ jobs[j].p.pc = pc

\* --------------------------------------------------------------- deduplication
\* f'task-{task_gid}-{event.created_at}', f'story-{story_gid}-{event.created_at}'
DedupKey(prefix, gid, created_at) == <<prefix, gid, created_at>>

\* int(_MAX_PROCESSED_EVENTS * 0.9)
KeepAfterEvict == (_MAX_PROCESSED_EVENTS * 9) \div 10

\* process_task_event lines 240-248: add the key, then, over the maximum, pop
\* len - int(max * 0.9) elements; set.pop() removes an arbitrary element, so
\* every subset of that size is a possible outcome
AddAndEvict(seen, key, after) ==
  LET added == seen \cup {key}
  IN IF Cardinality(added) > _MAX_PROCESSED_EVENTS
       THEN \E R \in SUBSET added :
              /\ Cardinality(R) = Cardinality(added) - KeepAfterEvict
              /\ after = added \ R
       ELSE after = added

\* process_story_event line 288: add the key, no clean-up
AddOnly(seen, key, after) == after = seen \cup {key}

\* process_task_event up to the first await of process_task_assignment
process_task_event(j, event) ==
  LET p == jobs[j].p
      dedup_key == DedupKey("task", event.gid, event.created_at)
  IN IF event.resource_type # "task" \/ event.action # "changed"
       THEN Finish(j, p, 0) /\ UNCHANGED <<_processed_events, attempts>>
       ELSE IF dedup_key \in _processed_events
         THEN Finish(j, p, 0) /\ UNCHANGED <<_processed_events, attempts>>
         ELSE /\ AddAndEvict(_processed_events, dedup_key, _processed_events')
              /\ attempts' = BagAdd(attempts, dedup_key)
              /\ SetProc(j, [p EXCEPT !.pc = "ta_settings", !.task_gid = event.gid])

\* a story handler without the test of the action
ProcessStoryEventAnyAction(j, event) ==
  LET p == jobs[j].p
      dedup_key == DedupKey("story", event.gid, event.created_at)
  IN IF dedup_key \in _processed_events
       THEN Finish(j, p, 0) /\ UNCHANGED <<_processed_events, attempts>>
       ELSE /\ AddOnly(_processed_events, dedup_key, _processed_events')
            /\ attempts' = BagAdd(attempts, dedup_key)
            /\ SetProc(j, [p EXCEPT !.pc = "sm_settings", !.story_gid = event.gid,
                                    !.task_gid = event.parent])

\* process_story_event up to the first await of process_story_mention
process_story_event(j, event) ==
  LET p == jobs[j].p
      dedup_key == DedupKey("story", event.gid, event.created_at)
  IN IF event.action # "added"
       THEN Finish(j, p, 0) /\ UNCHANGED <<_processed_events, attempts>>
       ELSE IF dedup_key \in _processed_events
         THEN Finish(j, p, 0) /\ UNCHANGED <<_processed_events, attempts>>
         ELSE /\ AddOnly(_processed_events, dedup_key, _processed_events')
              /\ attempts' = BagAdd(attempts, dedup_key)
              /\ SetProc(j, [p EXCEPT !.pc = "sm_settings", !.story_gid = event.gid,
                                      !.task_gid = event.parent])

\* process_webhook_event_safe -> process_webhook_event: route by resource type
process_webhook_event(j) ==
  /\ At(j, "start")
  /\ LET event == Head(jobs[j].queue)
     IN IF event.resource_type = "task"
          THEN process_task_event(j, event)
          ELSE IF event.resource_type = "story"
            THEN process_story_event(j, event)
            ELSE Finish(j, jobs[j].p, 0) /\ UNCHANGED <<_processed_events, attempts>>
  /\ UNCHANGED <<webhook_secrets, settings, webhooks, route,
                 formatted, removed, pending, resp, nPosts, nFail,
                 escaped, nHostOps>>
  /\ UNCHANGED coreVars

\* BackgroundTasks.__call__: the next task of the same response, or the end
next_background_task(j) ==
  /\ At(j, "done")
  /\ jobs' = IF Len(jobs[j].queue) > 1
               THEN [jobs EXCEPT ![j] = NewJob(Tail(jobs[j].queue))]
               ELSE RemoveAt(jobs, j)
  /\ UNCHANGED <<webhook_secrets, settings, webhooks, route,
                 formatted, removed, _processed_events, pending, resp,
                 attempts, nPosts, nFail, escaped, nHostOps>>
  /\ UNCHANGED coreVars

\* load_asana_settings returns a settings object (TRUE), or None when the load
\* raises or no access token is set (FALSE)
load_asana_settings(ok) == ok /\ Truthy(settings.asana_access_token)

\* ------------------------------------------------------- host conversations
\* events of a conversation's event stream
UserMsg == [k |-> "msg", v |-> "user"]
ASCO(state) == [k |-> "state", v |-> state]   \* AgentStateChangedObservation

\* asana_reporter.TERMINAL_STATES
TERMINAL_STATES == {"finished", "stopped", "error", "rejected", "awaiting_user_input"}

\* the values AgentState(...) accepts; any other raises ValueError
AgentStates == TERMINAL_STATES \cup {"loading", "running", "paused", "awaiting_user_confirmation"}

\* a test that takes every state change for a terminal one
IsTerminalEventAnyState(e) == e.k = "state"

IsTerminalEvent(e) == e.k = "state" /\ e.v \in AgentStates /\ e.v \in TERMINAL_STATES

\* conversation_manager.get_agent_session(conversation_id) is not None
get_agent_session(c) == c \in 1..Len(convs) /\ convs[c].live

SetMax(S) == CHOOSE x \in S : \A y \in S : y <= x

\* subscribe_to_conversation_events lines 834-855: the newest terminal state
\* change among the last ScanLimit events (0: none); state changes that are
\* not terminal, or not valid, are passed over
ScanTerminal(stream) ==
  LET lo == IF Len(stream) > ScanLimit THEN Len(stream) - ScanLimit + 1 ELSE 1
      W == {i \in lo..Len(stream) : IsTerminalEvent(stream[i])}
  IN IF W = {} THEN 0 ELSE SetMax(W)

\* a comment posted to Asana: the task, the conversation it speaks of, its
\* kind (pinned | result | error), for a result the stream index of the state
\* it reports and the arming of the listener it was triggered in
Comment(task, c, kind, ev, arm) ==
  [task |-> task, conv |-> c, kind |-> kind, ev |-> ev, arm |-> arm]

\* ------------------------------------------------------------ the mapping file
\* get_conversation_for_task: the mapped conversation if its session exists;
\* a stale entry is deleted.  The file store calls are synchronous: the whole
\* read-modify-write runs without suspension.
\* a lookup with the session test inverted
ConvForTaskInverted(task_gid) ==
  IF mapping[task_gid] # 0 /\ ~get_agent_session(mapping[task_gid])
    THEN mapping[task_gid] ELSE 0

ConvForTask(task_gid) ==
  IF mapping[task_gid] # 0 /\ get_agent_session(mapping[task_gid])
    THEN mapping[task_gid] ELSE 0

\* a lookup that empties the mapping when it finds a stale entry
MappingAfterLookupClearsAll(task_gid) ==
  IF mapping[task_gid] # 0 /\ ~get_agent_session(mapping[task_gid])
    THEN [t \in DOMAIN mapping |-> 0] ELSE mapping

MappingAfterLookup(task_gid) ==
  IF mapping[task_gid] # 0 /\ ~get_agent_session(mapping[task_gid])
    THEN [mapping EXCEPT ![task_gid] = 0] ELSE mapping

\* a store that loses the entry
SetConversationForgotten(task_gid, c) == mapping

\* a store that writes back a mapping read before the other entries were made
SetConversationFromStaleRead(task_gid, c) ==
  [t \in DOMAIN mapping |-> IF t = task_gid THEN c ELSE 0]

\* a store that keeps an entry the task already has
SetConversationIfAbsent(task_gid, c) ==
  IF mapping[task_gid] # 0 THEN mapping ELSE [mapping EXCEPT ![task_gid] = c]

\* a store that writes the conversation under every task
SetConversationForAll(task_gid, c) == [t \in DOMAIN mapping |-> c]

\* set_conversation_for_task
set_conversation_for_task(task_gid, c) == [mapping EXCEPT ![task_gid] = c]

\* what no step of a background process changes
outsideVars == <<webhook_secrets, settings, webhooks, route,
                 formatted, removed, _processed_events, pending, resp,
                 attempts, nPosts, nHostOps>>

Fails(ok) == IF ok THEN 0 ELSE 1

\* the calls whose exception is caught in the function that makes them:
\* load_asana_settings (lines 230-250), get_task (275-280, 529-551), like_task
\* (294-298), create_new_conversation under create_asana_conversation
\* (314-334, 554-566), add_comment (327-333, 341-349, report_result), get_story
\* (450-455), like_story (493-497), get_task_stories (529-551), add_event and
\* the subscription under send_message_to_conversation (376-415)
LocallyCaught ==
  {"load_asana_settings", "get_task", "like_task", "create_new_conversation",
   "add_comment", "get_story", "like_story", "get_task_stories", "add_event"}

\* process_task_event / process_story_event call the reconciler inside
\* try/except Exception, and so does process_webhook_event_safe around them
EventHandlerCatches == TRUE
SafeWrapperCatches == TRUE

\* a handler structure that catches nothing
EscapesAlways(site) == TRUE

\* the exception raised at `site` leaves process_webhook_event_safe
Escapes(site) ==
  site \notin LocallyCaught /\ ~EventHandlerCatches /\ ~SafeWrapperCatches

EscapedBy(site, n) == IF Escapes(site) THEN n ELSE 0

\* n calls at `site` have failed in this step
Failed(site, n) ==
  /\ nFail' = nFail + n
  /\ escaped' = escaped + EscapedBy(site, n)

Failed2(site1, n1, site2, n2) ==
  /\ nFail' = nFail + n1 + n2
  /\ escaped' = escaped + EscapedBy(site1, n1) + EscapedBy(site2, n2)

NewConv(task_gid) ==
  [task |-> task_gid,      \* history: the task the conversation was created for
   live |-> TRUE,          \* the host has an agent session for it
   stream |-> <<UserMsg>>, \* its event stream (initial_user_msg first)
   context |-> <<>>,       \* the previous comments listed in initial_user_msg
   sub |-> 0,              \* callback 'asana_reporter_<id>': the listener it closes over
   cursor |-> 0,           \* events of the stream already handed to the callback
   subAt |-> 0,            \* history: length of the stream when it was subscribed
   busy |-> 0,             \* stream index the callback is reporting (0: idle)
   busyArm |-> 0,          \* history: the arming that report was triggered in
   arms |-> 0]             \* history: times a listener was armed for it

\* AsanaConversationListener(...): _reported defaults to False
NewListener(c, task_gid, agent) ==
  [conversation_id |-> c, task_gid |-> task_gid, agent_user_gid |-> agent,
   _reported |-> FALSE]

\* What follows the return of subscribe_to_conversation_events in its caller,
\* up to the caller's next await:
\*  ta      create_asana_conversation returns into process_task_assignment:
\*          store the mapping, start the pinned comment (lines 336-346)
\*  sm_new  ... into process_story_mention: store the mapping, return (568-571)
\*  sm_send send_message_to_conversation adds the message (lines 406-415);
\*          when that raises, process_story_mention falls through to a new
\*          conversation (lines 521-530)
AfterSubscribe(j, p, okAdd) ==
  IF p.ret = "ta"
    THEN /\ mapping' = set_conversation_for_task(p.task_gid, p.conv)
         /\ convs' = convs
         /\ SetProc(j, [p EXCEPT !.pc = "ta_pin"])
    ELSE IF p.ret = "sm_new"
      THEN /\ mapping' = set_conversation_for_task(p.task_gid, p.conv)
           /\ convs' = convs
           /\ Finish(j, p, p.conv)
      ELSE /\ mapping' = mapping
           /\ IF okAdd
                THEN /\ convs' = [convs EXCEPT ![p.conv].stream = Append(@, UserMsg)]
                     /\ Finish(j, [p EXCEPT !.delivered = TRUE], p.conv)
                ELSE /\ convs' = convs
                     /\ SetProc(j, [p EXCEPT !.pc = "sm_ctx_task"])

\* okAdd is an input only where add_event is called
AddUsed(p, okAdd) == p.ret = "sm_send" \/ okAdd

\* subscribe_to_conversation_events lines 785-830, up to the sleep: build the
\* listener, store it, subscribe its callback (a second subscription under the
\* same callback id raises ValueError and leaves the first in place)
SubscribeSync(j, p, c) ==
  LET lid == Len(listeners) + 1
  IN /\ listeners' = Append(listeners, NewListener(c, p.task_gid, p.agent))
     /\ _active_listeners' =
          [x \in DOMAIN _active_listeners \cup {c} |->
             IF x = c THEN lid ELSE _active_listeners[x]]
     /\ convs' = [convs EXCEPT
                    ![c].sub = IF @ = 0 THEN lid ELSE @,
                    ![c].cursor = IF convs[c].sub = 0 THEN Len(convs[c].stream) ELSE @,
                    ![c].subAt = IF convs[c].sub = 0 THEN Len(convs[c].stream) ELSE @,
                    ![c].arms = @ + 1]
     /\ SetProc(j, [p EXCEPT !.pc = "sub_sleep", !.lis = lid, !.conv = c])

\* ------------------------------------------------ process_task_assignment
\* line 265: the settings load returns
ta_settings(j, ok) ==
  /\ At(j, "ta_settings")
  /\ LET p == jobs[j].p
     IN IF ~load_asana_settings(ok)
          THEN Finish(j, p, 0)
          ELSE SetProc(j, [p EXCEPT !.pc = "ta_fetch",
                                    !.agent = settings.asana_agent_user_gid])
  /\ Failed("load_asana_settings", Fails(ok))
  /\ UNCHANGED outsideVars
  /\ UNCHANGED coreVars

\* a task fetch whose failure is not noticed
ta_fetch_unchecked(j, ok, assignee) ==
  /\ At(j, "ta_fetch")
  /\ LET p == jobs[j].p
     IN SetProc(j, [p EXCEPT !.pc = "ta_like", !.liked = TRUE])
  /\ Failed("get_task", Fails(ok))
  /\ UNCHANGED outsideVars
  /\ UNCHANGED coreVars

\* an assignee check that lets every task through
AssigneeOkUnchecked(agent, assignee) == TRUE

\* lines 276-295: get_task returns; the assignee check; the like is issued
AssigneeOk(agent, assignee) == ~Truthy(agent) \/ assignee = agent

ta_fetch(j, ok, assignee) ==
  /\ At(j, "ta_fetch")
  /\ LET p == jobs[j].p
         q == [p EXCEPT !.assignee = assignee]
     IN IF ~ok
          THEN Finish(j, p, 0)
          ELSE IF ~AssigneeOk(p.agent, assignee)
            THEN Finish(j, q, 0)
            ELSE SetProc(j, [q EXCEPT !.pc = "ta_like", !.liked = TRUE])
  /\ Failed("get_task", Fails(ok))
  /\ UNCHANGED outsideVars
  /\ UNCHANGED coreVars

\* a run that posts the pinned comment before anything is looked up or created
ta_like_pins_first(j, ok) ==
  /\ At(j, "ta_like")
  /\ SetProc(j, [jobs[j].p EXCEPT !.pc = "ta_pin"])
  /\ Failed("like_task", Fails(ok))
  /\ UNCHANGED outsideVars
  /\ UNCHANGED coreVars

\* lines 296-315: like_task returns (its failure is only logged); the mapping
\* lookup; an existing conversation is returned, else the creation starts
ta_like(j, ok) ==
  /\ At(j, "ta_like")
  /\ LET p == jobs[j].p
         existing_conversation_id == ConvForTask(p.task_gid)
         q == [p EXCEPT !.existing = existing_conversation_id]
     IN /\ mapping' = MappingAfterLookup(p.task_gid)
        /\ IF existing_conversation_id # 0
             THEN Finish(j, q, existing_conversation_id)
             ELSE SetProc(j, [q EXCEPT !.pc = "create", !.ret = "ta"])
  /\ Failed("like_task", Fails(ok))
  /\ UNCHANGED outsideVars
  /\ UNCHANGED <<_active_listeners, listeners, convs, comments>>

\* ---------------------------------------------- create_asana_conversation
\* create_new_conversation inside the host: the conversation comes to exist
\* and its agent starts (ok), or the call raises
host_create(j, ok) ==
  /\ At(j, "create")
  /\ LET p == jobs[j].p
         c == Len(convs) + 1
     IN IF ok
          THEN /\ convs' = Append(convs, [NewConv(p.task_gid) EXCEPT
                                             !.context = p.previous_comments])
               /\ SetProc(j, [p EXCEPT !.pc = "created", !.conv = c, !.created = c])
          ELSE /\ convs' = convs
               /\ IF p.ret = "ta"
                    THEN SetProc(j, [p EXCEPT !.pc = "ta_errcomment"])
                    ELSE Finish(j, p, 0)
  /\ Failed("create_new_conversation", Fails(ok))
  /\ UNCHANGED outsideVars
  /\ UNCHANGED <<mapping, _active_listeners, listeners, comments>>

\* create_new_conversation returns; subscribe_to_conversation_events runs up
\* to its sleep, or returns at once when the session is already gone
create_return(j) ==
  /\ At(j, "created")
  /\ LET p == jobs[j].p
     IN IF get_agent_session(p.conv)
          THEN SubscribeSync(j, p, p.conv) /\ UNCHANGED mapping
          ELSE AfterSubscribe(j, p, TRUE) /\ UNCHANGED <<_active_listeners, listeners>>
  /\ UNCHANGED <<comments, nFail, escaped>>
  /\ UNCHANGED outsideVars

\* subscribe_to_conversation_events lines 832-861 after the sleep: the scan.
\* A terminal state found marks the listener reported and starts the report
\* (_report_to_asana returns without a post when the session is gone).
sub_scan(j, okAdd) ==
  /\ At(j, "sub_sleep")
  /\ LET p == jobs[j].p
         found == ScanTerminal(convs[p.conv].stream)
     IN /\ AddUsed(p, okAdd)
        /\ IF found # 0
             THEN /\ listeners' = [listeners EXCEPT ![p.lis]._reported = TRUE]
                  /\ IF get_agent_session(p.conv)
                       THEN /\ SetProc(j, [p EXCEPT !.pc = "sub_report", !.found = found,
                                                     !.arm = convs[p.conv].arms])
                            /\ UNCHANGED <<mapping, convs>>
                            /\ okAdd
                       ELSE AfterSubscribe(j, [p EXCEPT !.found = found], okAdd)
             ELSE /\ listeners' = listeners
                  /\ AfterSubscribe(j, p, okAdd)
  /\ Failed("add_event", Fails(okAdd))
  /\ UNCHANGED <<_active_listeners, comments>>
  /\ UNCHANGED outsideVars

\* report_result's add_comment returns (a failure is only logged)
sub_report(j, ok, okAdd) ==
  /\ At(j, "sub_report")
  /\ LET p == jobs[j].p
     IN /\ AddUsed(p, okAdd)
        /\ comments' = IF ok
             THEN BagAdd(comments, Comment(p.task_gid, p.conv, "result", p.found, p.arm))
             ELSE comments
        /\ AfterSubscribe(j, p, okAdd)
  /\ Failed2("add_comment", Fails(ok), "add_event", Fails(okAdd))
  /\ UNCHANGED <<_active_listeners, listeners>>
  /\ UNCHANGED outsideVars

\* a pinned comment whose failure undoes the run
ta_pin_rollback(j, ok) ==
  /\ At(j, "ta_pin")
  /\ LET p == jobs[j].p
     IN /\ comments' = IF ok
             THEN BagAdd(comments, Comment(p.task_gid, p.conv, "pinned", 0, 0))
             ELSE comments
        /\ mapping' = IF ok THEN mapping ELSE [mapping EXCEPT ![p.task_gid] = 0]
        /\ Finish(j, [p EXCEPT !.pinned = @ + (1 - Fails(ok))], IF ok THEN p.conv ELSE 0)
  /\ Failed("add_comment", Fails(ok))
  /\ UNCHANGED <<_active_listeners, listeners, convs>>
  /\ UNCHANGED outsideVars

\* lines 339-351: the pinned comment's add_comment returns
ta_pin(j, ok) ==
  /\ At(j, "ta_pin")
  /\ LET p == jobs[j].p
     IN /\ comments' = IF ok
             THEN BagAdd(comments, Comment(p.task_gid, p.conv, "pinned", 0, 0))
             ELSE comments
        /\ Finish(j, [p EXCEPT !.pinned = @ + (1 - Fails(ok))], p.conv)
  /\ Failed("add_comment", Fails(ok))
  /\ UNCHANGED <<mapping, _active_listeners, listeners, convs>>
  /\ UNCHANGED outsideVars

\* lines 326-334: the error comment's add_comment returns
ta_errcomment(j, ok) ==
  /\ At(j, "ta_errcomment")
  /\ LET p == jobs[j].p
     IN /\ comments' = IF ok
             THEN BagAdd(comments, Comment(p.task_gid, 0, "error", 0, 0))
             ELSE comments
        /\ Finish(j, p, 0)
  /\ Failed("add_comment", Fails(ok))
  /\ UNCHANGED <<mapping, _active_listeners, listeners, convs>>
  /\ UNCHANGED outsideVars

\* ------------------------------------------------------------ comment text
\* the characters of a gid as it appears inside text
GidChars(gid) ==
  CASE gid = "12" -> <<"1", "2">>
    [] gid = "312" -> <<"3", "1", "2">>
    [] gid = "45" -> <<"4", "5">>
    [] OTHER -> <<>>

\* story.html_text is a sequence of pieces (<<>>: None or ''):
\*   Text(cs)        plain characters
\*   Mention(g)      <a data-asana-gid="g">@Name</a>
\*   ProfileLink(g)  <a href="https://app.asana.com/0/profile/g">@Name</a>
Text(cs) == [k |-> "text", cs |-> cs, gid |-> None]
Mention(g) == [k |-> "mention", cs |-> <<>>, gid |-> g]
ProfileLink(g) == [k |-> "plink", cs |-> <<>>, gid |-> g]

\* the raw characters of a piece
RawPiece(x) ==
  IF x.k = "text" THEN x.cs
  ELSE <<"<">> \o GidChars(x.gid) \o <<">", "@", "<", ">">>

RECURSIVE Raw(_)
Raw(html) == IF html = <<>> THEN <<>> ELSE RawPiece(Head(html)) \o Raw(Tail(html))

\* `needle in hay` on strings
Contains(hay, needle) ==
  \E i \in 0..Len(hay) :
    i + Len(needle) <= Len(hay) /\ SubSeq(hay, i + 1, i + Len(needle)) = needle

\* a gate that lets every comment through
AgentMentionedAlways(html_text, agent_user_gid) == TRUE

\* process_story_mention lines 464-466

AgentMentioned(html_text, agent_user_gid) ==
  html_text # <<>> /\ Contains(Raw(html_text), GidChars(agent_user_gid))

\* str.strip()
RECURSIVE LStrip(_)
LStrip(cs) == IF cs # <<>> /\ Head(cs) = " " THEN LStrip(Tail(cs)) ELSE cs

RECURSIVE RStrip(_)
RStrip(cs) ==
  IF cs # <<>> /\ cs[Len(cs)] = " " THEN RStrip(SubSeq(cs, 1, Len(cs) - 1)) ELSE cs

Strip(cs) == RStrip(LStrip(cs))

\* asana_html_to_markdown: profile-link anchors are removed by the regular
\* expression together with the whitespace that follows them; markdownify
\* leaves of the other anchors their text, and plain text as it is; the
\* result is stripped
RECURSIVE MarkdownOf(_)
MarkdownOf(html) ==
  IF html = <<>> THEN <<>>
  ELSE LET x == Head(html)
       IN IF x.k = "plink" THEN LStrip(MarkdownOf(Tail(html)))
          ELSE (IF x.k = "mention" THEN <<"@">> ELSE x.cs) \o MarkdownOf(Tail(html))

asana_html_to_markdown(html_text) == Strip(MarkdownOf(html_text))

\* a Story as get_story returns it
StoryOf(subtype, html_text, text, target) ==
  [resource_subtype |-> subtype, html_text |-> html_text, text |-> text,
   target |-> target]

\* ------------------------------------------------- process_story_mention
\* lines 436-451: the settings load returns; get_story is issued
sm_settings(j, ok) ==
  /\ At(j, "sm_settings")
  /\ LET p == jobs[j].p
     IN IF ~load_asana_settings(ok)
          THEN Finish(j, p, 0)
          ELSE IF ~Truthy(settings.asana_agent_user_gid)
            THEN Finish(j, p, 0)
            ELSE SetProc(j, [p EXCEPT !.pc = "sm_fetch",
                                      !.agent = settings.asana_agent_user_gid])
  /\ Failed("load_asana_settings", Fails(ok))
  /\ UNCHANGED outsideVars
  /\ UNCHANGED coreVars

\* lines 451-494: get_story returns; subtype, mention, text and parent checks;
\* the like is issued
sm_fetch(j, ok, story) ==
  /\ At(j, "sm_fetch")
  /\ LET p == jobs[j].p
         comment_text == IF story.html_text # <<>>
                           THEN asana_html_to_markdown(story.html_text)
                           ELSE story.text
         task_gid == IF ~Truthy(p.task_gid) /\ Truthy(story.target)
                       THEN story.target ELSE p.task_gid
         q == [p EXCEPT !.html = story.html_text]
     IN IF ~ok
          THEN Finish(j, p, 0)
          ELSE IF story.resource_subtype # "comment_added"
            THEN Finish(j, q, 0)
            ELSE IF ~AgentMentioned(story.html_text, p.agent)
              THEN Finish(j, q, 0)
              ELSE IF Strip(comment_text) = <<>>
                THEN Finish(j, q, 0)
                ELSE IF ~Truthy(task_gid)
                  THEN Finish(j, q, 0)
                  ELSE SetProc(j, [q EXCEPT !.pc = "sm_like", !.task_gid = task_gid,
                                            !.liked = TRUE])
  /\ Failed("get_story", Fails(ok))
  /\ UNCHANGED outsideVars
  /\ UNCHANGED coreVars

\* lines 494-530: like_story returns; the mapping lookup; with an existing
\* conversation send_message_to_conversation runs: an existing listener is
\* reset and the message added (lines 383-412), a missing one is re-created
\* (subscribe_to_conversation_events, up to its sleep); without one, or when
\* the message could not be added, the task is fetched for a new conversation
sm_like(j, ok, okAdd) ==
  /\ At(j, "sm_like")
  /\ LET p == jobs[j].p
         c == ConvForTask(p.task_gid)
         q == [p EXCEPT !.existing = c, !.conv = c, !.ret = "sm_send"]
     IN /\ mapping' = MappingAfterLookup(p.task_gid)
        /\ IF c = 0
             THEN /\ okAdd
                  /\ SetProc(j, [p EXCEPT !.pc = "sm_ctx_task"])
                  /\ UNCHANGED <<_active_listeners, listeners, convs>>
             ELSE IF c \in DOMAIN _active_listeners
               THEN /\ listeners' = [listeners EXCEPT ![_active_listeners[c]]._reported = FALSE]
                    /\ _active_listeners' = _active_listeners
                    /\ IF okAdd
                         THEN /\ convs' = [convs EXCEPT ![c].stream = Append(@, UserMsg),
                                                        ![c].arms = @ + 1]
                              /\ Finish(j, [q EXCEPT !.delivered = TRUE], c)
                         ELSE /\ convs' = [convs EXCEPT ![c].arms = @ + 1]
                              /\ SetProc(j, [q EXCEPT !.pc = "sm_ctx_task"])
               ELSE /\ okAdd
                    /\ SubscribeSync(j, q, c)
  /\ comments' = comments
  /\ Failed2("like_story", Fails(ok), "add_event", Fails(okAdd))
  /\ UNCHANGED outsideVars

\* lines 530-535: get_task returns; a failure falls back to the bare comment
sm_ctx_task(j, ok) ==
  /\ At(j, "sm_ctx_task")
  /\ SetProc(j, [jobs[j].p EXCEPT !.pc = IF ok THEN "sm_ctx_stories" ELSE "create",
                                  !.ret = "sm_new"])
  /\ Failed("get_task", Fails(ok))
  /\ UNCHANGED outsideVars
  /\ UNCHANGED coreVars

\* a story of the list get_task_stories returns
ListedStory(gid, subtype) == [gid |-> gid, resource_subtype |-> subtype]

\* a context that takes in every story of the task
PreviousCommentsUnfiltered(all_stories, story_gid) == all_stories

\* lines 536-540: the comments among the stories, the triggering one left out
PreviousComments(all_stories, story_gid) ==
  SelectSeq(all_stories,
            LAMBDA s : s.resource_subtype = "comment_added" /\ s.gid # story_gid)

\* lines 535-555: get_task_stories returns; the message is built (a failure
\* falls back to the bare comment)
sm_ctx_stories(j, ok, all_stories) ==
  /\ At(j, "sm_ctx_stories")
  /\ LET p == jobs[j].p
     IN IF ok
          THEN SetProc(j, [p EXCEPT !.pc = "create", !.all_stories = all_stories,
                                    !.previous_comments =
                                      PreviousComments(all_stories, p.story_gid)])
          ELSE SetProc(j, [p EXCEPT !.pc = "create"])
  /\ Failed("get_task_stories", Fails(ok))
  /\ UNCHANGED outsideVars
  /\ UNCHANGED coreVars

\* ------------------------------------------------------------------ the host
hostFrame == <<webhook_secrets, settings, webhooks, route,
                 formatted, removed, _processed_events, pending, resp, jobs,
               attempts, nPosts>>

\* the agent of a live conversation adds an event to its stream
agent_event(c, e) ==
  /\ get_agent_session(c)
  /\ convs' = [convs EXCEPT ![c].stream = Append(@, e)]
  /\ UNCHANGED <<mapping, _active_listeners, listeners, comments, nFail, escaped, nHostOps>>
  /\ UNCHANGED hostFrame

\* AsanaConversationListener.create_callback, lines 459-492: the event stream
\* hands the next event to the callback; a terminal state change not yet
\* reported sets _reported and starts the report (call_async_from_sync blocks
\* the callback's thread until the report returns)
ShouldReport(l, e) == IsTerminalEvent(e) /\ ~l._reported

\* a callback that starts the report without marking the listener
callback_unmarked(c) ==
  /\ c \in 1..Len(convs)
  /\ convs[c].sub # 0
  /\ convs[c].busy = 0
  /\ convs[c].cursor < Len(convs[c].stream)
  /\ LET i == convs[c].cursor + 1
         lid == convs[c].sub
     IN /\ listeners' = listeners
        /\ IF ShouldReport(listeners[lid], convs[c].stream[i])
             THEN convs' = [convs EXCEPT ![c].cursor = i, ![c].busy = i,
                                         ![c].busyArm = convs[c].arms]
             ELSE convs' = [convs EXCEPT ![c].cursor = i]
  /\ UNCHANGED <<mapping, _active_listeners, comments, nFail, escaped, nHostOps>>
  /\ UNCHANGED hostFrame

callback(c) ==
  /\ c \in 1..Len(convs)
  /\ convs[c].sub # 0
  /\ convs[c].busy = 0
  /\ convs[c].cursor < Len(convs[c].stream)
  /\ LET i == convs[c].cursor + 1
         lid == convs[c].sub
     IN IF ShouldReport(listeners[lid], convs[c].stream[i])
          THEN /\ listeners' = [listeners EXCEPT ![lid]._reported = TRUE]
               /\ convs' = [convs EXCEPT ![c].cursor = i, ![c].busy = i,
                                         ![c].busyArm = convs[c].arms]
          ELSE /\ listeners' = listeners
               /\ convs' = [convs EXCEPT ![c].cursor = i]
  /\ UNCHANGED <<mapping, _active_listeners, comments, nFail, escaped, nHostOps>>
  /\ UNCHANGED hostFrame

\* _report_to_asana started by the callback returns: no post when the session
\* is gone; ok = FALSE is a failed add_comment or the 60 s timeout
callback_report(c, ok) ==
  /\ c \in 1..Len(convs)
  /\ convs[c].busy # 0
  /\ comments' = IF get_agent_session(c) /\ ok
       THEN BagAdd(comments, Comment(listeners[convs[c].sub].task_gid, c, "result",
                                     convs[c].busy, convs[c].busyArm))
       ELSE comments
  /\ convs' = [convs EXCEPT ![c].busy = 0, ![c].busyArm = 0]
  /\ nFail' = nFail + Fails(ok)
  /\ escaped' = escaped
  /\ UNCHANGED <<mapping, _active_listeners, listeners, nHostOps>>
  /\ UNCHANGED hostFrame

\* the host ends a conversation's session (the conversation is stopped or deleted)
close_session(c) ==
  /\ get_agent_session(c)
  /\ convs' = [convs EXCEPT ![c].live = FALSE]
  /\ nHostOps' = nHostOps + 1
  /\ UNCHANGED <<mapping, _active_listeners, listeners, comments, nFail, escaped>>
  /\ UNCHANGED hostFrame

\* no call of remove_conversation_mapping yet
NotRemoved == [conversation_id |-> 0, ret |-> FALSE]

\* a removal that leaves the listener in _active_listeners
remove_conversation_mapping_keeps_listener(c) ==
  /\ c \in 1..Len(convs)
  /\ mapping' = [t \in DOMAIN mapping |-> IF mapping[t] = c THEN 0 ELSE mapping[t]]
  /\ removed' = [conversation_id |-> c, ret |-> \E t \in DOMAIN mapping : mapping[t] = c]
  /\ nHostOps' = nHostOps + 1
  /\ UNCHANGED <<_active_listeners, listeners, convs, comments, nFail, escaped>>
  /\ UNCHANGED <<webhook_secrets, settings, webhooks, route, formatted,
                 _processed_events, pending, resp, jobs, attempts, nPosts>>

\* remove_conversation_mapping(conversation_id): the first entry found that
\* points to the conversation leaves the mapping (the loop breaks at it; the
\* order of the entries in the file is left open), its listener leaves
\* _active_listeners
remove_conversation_mapping(c) ==
  /\ c \in 1..Len(convs)
  /\ IF \E t \in DOMAIN mapping : mapping[t] = c
       THEN \E t \in DOMAIN mapping :
              mapping[t] = c /\ mapping' = [mapping EXCEPT ![t] = 0]
       ELSE mapping' = mapping
  /\ _active_listeners' = [x \in DOMAIN _active_listeners \ {c} |-> _active_listeners[x]]
  /\ removed' = [conversation_id |-> c, ret |-> \E t \in DOMAIN mapping : mapping[t] = c]
  /\ nHostOps' = nHostOps + 1
  /\ UNCHANGED <<listeners, convs, comments, nFail, escaped>>
  /\ UNCHANGED <<webhook_secrets, settings, webhooks, route, formatted,
                 _processed_events, pending, resp, jobs, attempts, nPosts>>

\* the server process restarts: module globals, background tasks, suspended
\* requests and subscribed callbacks are gone; the settings, the mapping file,
\* the host's conversations and Asana's comments persist
restart ==
  /\ webhook_secrets' = EmptyStr
  /\ _processed_events' = {}
  /\ pending' = <<>>
  /\ jobs' = <<>>
  /\ _active_listeners' = <<>>
  /\ convs' = [c \in 1..Len(convs) |->
                 [convs[c] EXCEPT !.sub = 0, !.cursor = 0, !.subAt = 0, !.busy = 0,
                                  !.busyArm = 0]]
  /\ attempts' = <<>>
  /\ nHostOps' = nHostOps + 1
  /\ UNCHANGED <<settings, webhooks, route,
                 formatted, removed, resp, mapping, listeners, comments, nPosts,
                 nFail, escaped>>

\* ---------------------------------------------------------------- the inputs
TaskGids == {"T1", "T2"}

AgentGid == "12"

ConfiguredSettings ==
  [asana_access_token |-> "token", asana_agent_user_gid |-> AgentGid,
   asana_webhook_secret |-> "S1", asana_workspace_gid |-> "W1",
   asana_project_gid |-> "P1"]

UnconfiguredSettings ==
  [asana_access_token |-> None, asana_agent_user_gid |-> None,
   asana_webhook_secret |-> None, asana_workspace_gid |-> None,
   asana_project_gid |-> None]

\* events of the deliveries to the reconciler
TaskT1 == Ev("changed", "task", "T1", None, "t1")
TaskT1Again == Ev("changed", "task", "T1", None, "t2")
StoryS1 == Ev("added", "story", "S1", "T1", "t1")

CoreEvents == {TaskT1, TaskT1Again, StoryS1}

\* events of two tasks
TaskT2 == Ev("changed", "task", "T2", None, "t1")
MappingEvents == {TaskT1, TaskT2, StoryS1}

\* what get_task may return as the task's assignee
Assignees == {AgentGid, "45", None}

\* what get_story may return
StoryInputs ==
  { StoryOf("comment_added", <<Mention(AgentGid), Text(<<"w">>)>>, <<"w">>, "T1"),
    StoryOf("comment_added", <<Mention("45"), Text(<<"w">>)>>, <<"w">>, "T1"),
    StoryOf("comment_added", <<ProfileLink(AgentGid), Text(<<" ">>)>>, <<>>, "T1"),
    StoryOf("comment_added", <<Mention("312"), Text(<<"w">>)>>, <<"w">>, "T1"),
    StoryOf("comment_added", <<>>, <<"w">>, "T1"),
    StoryOf("assigned", <<Mention(AgentGid), Text(<<"w">>)>>, <<"w">>, "T1") }

\* what get_task_stories may return: the comments and the system activity of
\* the task, oldest first, the triggering comment S1 among them or not yet
TaskStories ==
  { <<>>,
    <<ListedStory("S0", "comment_added"), ListedStory("S9", "assigned"),
      ListedStory("S1", "comment_added")>>,
    <<ListedStory("S2", "comment_added"), ListedStory("S0", "comment_added")>> }

\* the same, where the context of the conversation is of no interest
ReporterStories ==
  { <<ListedStory("S0", "comment_added"), ListedStory("S9", "assigned"),
      ListedStory("S1", "comment_added")>> }

\* what the agent of a conversation may add to its stream
HostEvents == {ASCO("running"), ASCO("finished"), ASCO("invalid")}

\* the requests put to the webhook endpoint: <<X-Hook-Secret, X-Hook-Signature, body>>
EndpointEvents ==
  { TaskT1, TaskT1Again, Ev("changed", "task", "T2", None, "t1"),
    StoryS1, Ev("added", "story", "S2", None, "t1"),
    Ev("added", "task", "T1", None, "t1"),
    Ev("changed", "story", "S1", "T1", "t1"),
    Ev("changed", "project", "P1", None, "t1") }

EndpointBodies ==
  {Malformed, Body(<<>>), Body(<<TaskT1, StoryS1>>)}
    \cup {Body(<<e>>) : e \in EndpointEvents}

Signed(secret, body) == <<None, Sig(HmacSha256(secret, body)), body>>

Requests ==
  \* handshakes, one of them carrying a signature as well
  { <<"S1", NoSig, Malformed>>, <<"S2", NoSig, Body(<<TaskT1>>)>>,
    <<"S2", Sig(HmacSha256("S1", Body(<<TaskT1>>))), Body(<<TaskT1>>)>> }
  \* no header at all, or an empty X-Hook-Secret
  \cup {<<None, NoSig, b>> : b \in EndpointBodies}
  \cup {<<EmptyStr, NoSig, Body(<<TaskT1>>)>>}
  \* signed under the first secret, under the second, over another body
  \cup {Signed("S1", b) : b \in EndpointBodies}
  \cup {Signed("S2", Body(<<TaskT1>>)), Signed("S2", Malformed)}
  \cup {<<None, Sig(HmacSha256("S1", Body(<<>>))), Body(<<TaskT1>>)>>}

\* ------------------------------------------------------ the result's text
\* The agent's last message is markdown text, a sequence of pieces as above,
\* with two more kinds:
\*   Url(g)     https://app.asana.com/0/profile/g
\*   MdLink(g)  [Name](/0/profile/g)
Url(g) == [k |-> "url", cs |-> <<>>, gid |-> g]
MdLink(g) == [k |-> "mdlink", cs |-> <<>>, gid |-> g]

\* what the second substitution puts in the place of a URL
LinkRemoved == Text(<<"[link removed]">>)

\* sanitize_agent_mentions lines 120-142, on one piece: the first pattern
\* takes out an anchor whose data-asana-gid is the agent's; the second
\* replaces a URL that contains the agent's gid, also the one inside an href;
\* the third takes out a markdown link that contains it
SanitizePiece(x, agent_user_gid) ==
  CASE x.k = "mention" -> IF x.gid = agent_user_gid THEN <<>> ELSE <<x>>
    [] x.k = "url" ->
         IF Contains(GidChars(x.gid), GidChars(agent_user_gid))
           THEN <<LinkRemoved>> ELSE <<x>>
    [] x.k = "plink" ->
         IF Contains(GidChars(x.gid), GidChars(agent_user_gid))
           THEN <<ProfileLink(None)>> ELSE <<x>>
    [] x.k = "mdlink" ->
         IF Contains(GidChars(x.gid), GidChars(agent_user_gid)) THEN <<>> ELSE <<x>>
    [] OTHER -> <<x>>

RECURSIVE SanitizePieces(_, _)
SanitizePieces(text, agent_user_gid) ==
  IF text = <<>> THEN <<>>
  ELSE SanitizePiece(Head(text), agent_user_gid)
         \o SanitizePieces(Tail(text), agent_user_gid)

\* sanitize_agent_mentions
sanitize_agent_mentions(text, agent_user_gid) ==
  IF text = <<>> \/ ~Truthy(agent_user_gid) THEN text
  ELSE SanitizePieces(text, agent_user_gid)

\* _asana_markdown(text): the renderer leaves plain characters, and the
\* characters of a gid, as they are, whatever it makes of the markup around them
_asana_markdown(text) == Raw(text)

\* markdown_to_asana_html
markdown_to_asana_html(markdown_text, agent_user_gid) ==
  IF markdown_text = <<>> THEN <<>>
  ELSE Strip(_asana_markdown(sanitize_agent_mentions(markdown_text, agent_user_gid)))

\* nothing formatted yet
NotFormatted ==
  [last_message |-> <<>>, agent_user_gid |-> None, formatted_message |-> <<>>]

\* format_agent_result lines 277-281: the agent's last message is converted
format_agent_result(last_message, agent_user_gid) ==
  /\ formatted' = [last_message |-> last_message, agent_user_gid |-> agent_user_gid,
                   formatted_message |->
                     markdown_to_asana_html(last_message, agent_user_gid)]
  /\ UNCHANGED <<webhook_secrets, settings, webhooks, route, _processed_events, pending,
                 resp, jobs, attempts, nPosts, nFail, escaped, nHostOps, removed>>
  /\ UNCHANGED coreVars

\* ------------------------------------------------ webhook management routes
\* A URL is the sequence of its parts; `x in url` is Contains(url, <<x>>).
\* get_base_url: OPENHANDS_BASE_URL, or http://localhost:3000 when it is unset
DefaultBaseUrl == <<"http://", "localhost", ":3000">>

\* f'{base_url}/api/webhooks/asana'
TargetUrl(base_url) == base_url \o <<"/api/webhooks/asana">>

\* create_webhook line 173: 'localhost' in target_url or '127.0.0.1' in target_url
IsLocalTarget(target_url) ==
  Contains(target_url, <<"localhost">>) \/ Contains(target_url, <<"127.0.0.1">>)

\* WebhookFilter(resource_type, action, fields)
WebhookFilter(rt, a, fields) == [resource_type |-> rt, action |-> a, fields |-> fields]

\* the filters create_webhook asks for
CreateFilters ==
  << WebhookFilter("task", "changed", <<"assignee">>),
     WebhookFilter("story", "added", None) >>

\* WebhookCreateRequest(resource, target, filters)
WebhookCreateRequest(resource, target, filters) ==
  [resource |-> resource, target |-> target, filters |-> filters]

\* a webhook as Asana holds it, made from the payload of AsanaClient.create_webhook
\* (the filters are part of the payload only when the request has some)
WebhookOf(request) ==
  [resource |-> request.resource, target |-> request.target,
   filters |-> IF request.filters # <<>> THEN request.filters ELSE <<>>,
   live |-> TRUE]

\* get_webhooks: the gids of the webhooks of the workspace, in Asana's order
ListedWebhooks == SelectSeq([g \in 1..Len(webhooks) |-> g], LAMBDA g : webhooks[g].live)

\* the webhooks that target this instance's callback URL
Targeting(target_url) ==
  {g \in 1..Len(webhooks) : webhooks[g].live /\ webhooks[g].target = target_url}

\* the request being served: the handler (op), the await it is suspended in
\* (pc), the environment's base URL, the locals that live across an await and
\* a record of what the request has done
IdleRoute(base_url) ==
  [op |-> None, pc |-> "idle", base_url |-> base_url,
   todo |-> <<>>,       \* the webhooks of the list not yet looked at
   cur |-> 0,           \* the webhook whose deletion is awaited
   deleted |-> FALSE,
   secret |-> None,     \* the secret client.create_webhook returned
   created |-> 0,       \* the webhook client.create_webhook returned
   status |-> 0,        \* the response's status code (0: none yet)
   before |-> {},       \* history: webhooks targeting this instance at the start
   calls |-> 0,         \* history: calls to Asana issued
   writes |-> 0,        \* history: settings_store.store calls issued
   n |-> 0]             \* history: requests received

Answer(r, status) == [r EXCEPT !.pc = "answered", !.status = status]

\* how a call to Asana ends: it returns, raises httpx.HTTPStatusError (a
\* non-2xx answer of Asana, here a 403) or raises something else
CallResults == {"ok", "http_error", "error"}

\* what the handler answers when a call raised: create_webhook hands on the
\* upstream status of an HTTPStatusError, every other case is a 500
ErrorStatus(op, kind) == IF op = "create" /\ kind = "http_error" THEN 403 ELSE 500

RouteFree == route.pc \in {"idle", "answered"}

NewRequest(op) ==
  [IdleRoute(route.base_url) EXCEPT
     !.op = op, !.n = route.n + 1,
     !.before = Targeting(TargetUrl(route.base_url))]

adminFrame == <<webhook_secrets, _processed_events, pending, resp, jobs, attempts,
                nPosts, nHostOps, escaped, formatted, removed>>

\* after the list, or after a deletion: the loop runs on to the next webhook
\* with this instance's target and awaits its deletion; past the last one
\* create_webhook awaits the creation, delete_webhook stores the settings or
\* answers 404
\* a loop that finds no webhook of this instance
NextDeleteSkipsAll(r) ==
  IF r.op = "create"
    THEN [r EXCEPT !.pc = "create", !.todo = <<>>, !.calls = @ + 1]
    ELSE Answer(r, 404)

RECURSIVE NextDelete(_)
NextDelete(r) ==
  IF r.todo = <<>>
    THEN IF r.op = "create"
           THEN [r EXCEPT !.pc = "create", !.calls = @ + 1]
           ELSE IF r.deleted
             THEN [r EXCEPT !.pc = "store", !.writes = @ + 1]
             ELSE Answer(r, 404)
    ELSE IF webhooks[Head(r.todo)].target = TargetUrl(r.base_url)
      THEN [r EXCEPT !.pc = "delete", !.cur = Head(r.todo), !.todo = Tail(r.todo),
                     !.calls = @ + 1]
      ELSE NextDelete([r EXCEPT !.todo = Tail(r.todo)])

\* POST /api/asana/webhook/create, lines 143-182: the configuration checks,
\* the localhost check, get_webhooks is issued
create_webhook ==
  /\ RouteFree
  /\ LET r == NewRequest("create")
     IN route' =
          IF ~Truthy(settings.asana_access_token) THEN Answer(r, 400)
          ELSE IF ~Truthy(settings.asana_workspace_gid) THEN Answer(r, 400)
          ELSE IF ~Truthy(settings.asana_project_gid) THEN Answer(r, 400)
          ELSE IF IsLocalTarget(TargetUrl(r.base_url)) THEN Answer(r, 400)
          ELSE [r EXCEPT !.pc = "list", !.calls = 1]
  /\ UNCHANGED <<settings, webhooks, nFail>>
  /\ UNCHANGED adminFrame
  /\ UNCHANGED coreVars

\* DELETE /api/asana/webhook, lines 266-289: the configuration checks,
\* get_webhooks is issued
delete_webhook ==
  /\ RouteFree
  /\ LET r == NewRequest("delete")
     IN route' =
          IF ~Truthy(settings.asana_access_token) THEN Answer(r, 400)
          ELSE IF ~Truthy(settings.asana_workspace_gid) THEN Answer(r, 400)
          ELSE [r EXCEPT !.pc = "list", !.calls = 1]
  /\ UNCHANGED <<settings, webhooks, nFail>>
  /\ UNCHANGED adminFrame
  /\ UNCHANGED coreVars

\* client.get_webhooks returns
client_get_webhooks(kind) ==
  /\ route.pc = "list"
  /\ route' = IF kind = "ok"
                THEN NextDelete([route EXCEPT !.todo = ListedWebhooks])
                ELSE Answer(route, ErrorStatus(route.op, kind))
  /\ nFail' = nFail + Fails(kind = "ok")
  /\ UNCHANGED <<settings, webhooks>>
  /\ UNCHANGED adminFrame
  /\ UNCHANGED coreVars

\* client.delete_webhook(webhook.gid) returns
client_delete_webhook(kind) ==
  /\ route.pc = "delete"
  /\ IF kind = "ok"
       THEN /\ webhooks' = [webhooks EXCEPT ![route.cur].live = FALSE]
            /\ route' = NextDelete([route EXCEPT !.deleted = TRUE, !.cur = 0])
       ELSE /\ webhooks' = webhooks
            /\ route' = Answer(route, ErrorStatus(route.op, kind))
  /\ nFail' = nFail + Fails(kind = "ok")
  /\ UNCHANGED settings
  /\ UNCHANGED adminFrame
  /\ UNCHANGED coreVars

\* client.create_webhook(request) returns the webhook and
\* result.get('X-Hook-Secret', ''); create_webhook lines 211-225: a secret is
\* put into the settings and stored, without one the answer is given at once
client_create_webhook(kind, secret) ==
  /\ route.pc = "create"
  /\ LET request == WebhookCreateRequest(settings.asana_project_gid,
                                         TargetUrl(route.base_url), CreateFilters)
         r == [route EXCEPT !.created = Len(webhooks) + 1, !.secret = secret]
     IN IF kind = "ok"
          THEN /\ webhooks' = Append(webhooks, WebhookOf(request))
               /\ route' = IF Truthy(secret)
                             THEN [r EXCEPT !.pc = "store", !.writes = @ + 1]
                             ELSE Answer(r, 200)
          ELSE /\ webhooks' = webhooks
               /\ route' = Answer(route, ErrorStatus(route.op, kind))
  /\ nFail' = nFail + Fails(kind = "ok")
  /\ UNCHANGED settings
  /\ UNCHANGED adminFrame
  /\ UNCHANGED coreVars

\* a store that writes nothing
settings_store_dropped(ok) ==
  /\ route.pc = "store"
  /\ route' = Answer(route, IF ok THEN 200 ELSE 500)
  /\ nFail' = nFail + Fails(ok)
  /\ UNCHANGED <<settings, webhooks>>
  /\ UNCHANGED adminFrame
  /\ UNCHANGED coreVars

\* settings_store.store(settings) returns: create_webhook has set the new
\* secret, delete_webhook has set None
settings_store(ok) ==
  /\ route.pc = "store"
  /\ IF ok
       THEN /\ settings' = [settings EXCEPT !.asana_webhook_secret =
                              IF route.op = "create" THEN route.secret ELSE None]
            /\ route' = Answer(route, 200)
       ELSE /\ settings' = settings
            /\ route' = Answer(route, 500)
  /\ nFail' = nFail + Fails(ok)
  /\ UNCHANGED webhooks
  /\ UNCHANGED adminFrame
  /\ UNCHANGED coreVars

\* -------------------------------------------------------- the specifications
InitState(s, secret, registered, base_url) ==
  /\ webhook_secrets = secret
  /\ settings = s
  /\ _processed_events = {}
  /\ pending = <<>>
  /\ resp = [x_hook_secret |-> None, x_hook_signature |-> NoSig, body |-> Malformed,
             status |-> 0, queued |-> 0, echo |-> None]
  /\ jobs = <<>>
  /\ mapping = [t \in TaskGids |-> 0]
  /\ _active_listeners = <<>>
  /\ listeners = <<>>
  /\ convs = <<>>
  /\ comments = <<>>
  /\ attempts = <<>>
  /\ nPosts = 0
  /\ nFail = 0
  /\ escaped = 0
  /\ nHostOps = 0
  /\ webhooks = registered
  /\ route = IdleRoute(base_url)
  /\ formatted = NotFormatted
  /\ removed = NotRemoved

\* no webhook registered yet, OPENHANDS_BASE_URL unset
InitWith(s, secret) == InitState(s, secret, <<>>, DefaultBaseUrl)

\* a fresh process; the integration is configured or not
Init == \E s \in {ConfiguredSettings, UnconfiguredSettings} : InitWith(s, EmptyStr)

MayFail(ok) == ok \/ nFail < MaxFail
MayFail2(ok1, ok2) == nFail + Fails(ok1) + Fails(ok2) <= MaxFail

Request(maxPosts, maxJobs) ==
  \E r \in Requests :
    /\ nPosts < maxPosts
    /\ Len(jobs) < maxJobs
    /\ Len(pending) < MaxPending
    /\ asana_webhook(r[1], r[2], r[3])

\* a delivery of one of the events, signed under the configured secret
DeliveryOf(events, maxPosts, maxJobs) ==
  \E e \in events :
    /\ nPosts < maxPosts
    /\ Len(jobs) < maxJobs
    /\ Len(pending) < MaxPending
    /\ asana_webhook(None, Sig(HmacSha256("S1", Body(<<e>>))), Body(<<e>>))

Delivery(maxPosts, maxJobs) == DeliveryOf(CoreEvents, maxPosts, maxJobs)

SecretLoaded(maxJobs) ==
  \E i \in 1..Len(pending), ok \in BOOLEAN :
    MayFail(ok) /\ Len(jobs) < maxJobs /\ asana_webhook_resume(i, ok)

Dispatch ==
  \/ \E j \in 1..Len(jobs) : process_webhook_event(j)
  \/ \E j \in 1..Len(jobs) : next_background_task(j)

\* the steps of process_task_assignment
Assignment ==
  \/ \E j \in 1..Len(jobs), ok \in BOOLEAN : MayFail(ok) /\ ta_settings(j, ok)
  \/ \E j \in 1..Len(jobs), ok \in BOOLEAN, a \in Assignees :
       MayFail(ok) /\ ta_fetch(j, ok, a)
  \/ \E j \in 1..Len(jobs), ok \in BOOLEAN : MayFail(ok) /\ ta_like(j, ok)
  \/ \E j \in 1..Len(jobs), ok \in BOOLEAN : MayFail(ok) /\ ta_pin(j, ok)
  \/ \E j \in 1..Len(jobs), ok \in BOOLEAN : MayFail(ok) /\ ta_errcomment(j, ok)

\* the steps of process_story_mention
MentionSteps(stories) ==
  \/ \E j \in 1..Len(jobs), ok \in BOOLEAN : MayFail(ok) /\ sm_settings(j, ok)
  \/ \E j \in 1..Len(jobs), ok \in BOOLEAN, s \in StoryInputs :
       MayFail(ok) /\ sm_fetch(j, ok, s)
  \/ \E j \in 1..Len(jobs), ok \in BOOLEAN, okAdd \in BOOLEAN :
       MayFail2(ok, okAdd) /\ sm_like(j, ok, okAdd)
  \/ \E j \in 1..Len(jobs), ok \in BOOLEAN : MayFail(ok) /\ sm_ctx_task(j, ok)
  \/ \E j \in 1..Len(jobs), ok \in BOOLEAN, all_stories \in stories :
       MayFail(ok) /\ (ok \/ all_stories = <<>>) /\ sm_ctx_stories(j, ok, all_stories)

\* the steps of create_asana_conversation and subscribe_to_conversation_events
Creation(maxConvs) ==
  \/ \E j \in 1..Len(jobs), ok \in BOOLEAN :
       MayFail(ok) /\ (ok => Len(convs) < maxConvs) /\ host_create(j, ok)
  \/ \E j \in 1..Len(jobs) : create_return(j)
  \/ \E j \in 1..Len(jobs), okAdd \in BOOLEAN : MayFail(okAdd) /\ sub_scan(j, okAdd)

ScanReport ==
  \E j \in 1..Len(jobs), ok \in BOOLEAN, okAdd \in BOOLEAN :
    MayFail2(ok, okAdd) /\ sub_report(j, ok, okAdd)

AgentRuns ==
  \/ \E c \in 1..Len(convs), e \in HostEvents :
       Len(convs[c].stream) < MaxStream /\ agent_event(c, e)
  \/ \E c \in 1..Len(convs) : callback(c)
  \/ \E c \in 1..Len(convs), ok \in BOOLEAN : MayFail(ok) /\ callback_report(c, ok)

SessionEnds ==
  \/ \E c \in 1..Len(convs) : nHostOps < MaxHostOps /\ close_session(c)
  \/ \E c \in 1..Len(convs) : nHostOps < MaxHostOps /\ remove_conversation_mapping(c)

Restarts == nHostOps < MaxHostOps /\ restart

\* the webhook endpoint, with every kind of request
NextEndpoint ==
  \/ Request(EndpointPosts, 1) \/ SecretLoaded(1) \/ Dispatch
  \/ \E j \in 1..Len(jobs), ok \in BOOLEAN : MayFail(ok) /\ ta_settings(j, ok)
  \/ \E j \in 1..Len(jobs), ok \in BOOLEAN : MayFail(ok) /\ sm_settings(j, ok)

InitEndpoint ==
  \E s \in {UnconfiguredSettings,
            [UnconfiguredSettings EXCEPT !.asana_webhook_secret = "S1"]} :
    InitWith(s, EmptyStr)

SpecEndpoint == InitEndpoint /\ [][NextEndpoint]_vars

\* the endpoint while a settings load is in flight: only a request that would
\* itself wait for a load is held back once MaxPending loads are in flight; a
\* handshake, an unsigned request and a delivery verified from memory are
\* answered in the meantime
RequestDuringLoad(maxPosts, maxJobs) ==
  \E r \in Requests :
    /\ nPosts < maxPosts
    /\ Len(jobs) < maxJobs
    /\ \/ Len(pending) < MaxPending
       \/ Truthy(r[1]) \/ ~SigTruthy(r[2]) \/ Truthy(webhook_secrets)
    /\ asana_webhook(r[1], r[2], r[3])

NextSecret ==
  \/ RequestDuringLoad(EndpointPosts, 1) \/ SecretLoaded(1) \/ Dispatch
  \/ \E j \in 1..Len(jobs), ok \in BOOLEAN : MayFail(ok) /\ ta_settings(j, ok)
  \/ \E j \in 1..Len(jobs), ok \in BOOLEAN : MayFail(ok) /\ sm_settings(j, ok)

SpecSecret == InitEndpoint /\ [][NextSecret]_vars

\* the dedup set under concurrent deliveries: the handshake has been made,
\* the access token is not configured, so that a reconciler run is its
\* settings load alone
InitDedup == InitWith(UnconfiguredSettings, "S1")

NextDedup ==
  \/ Delivery(DedupPosts, 2) \/ Dispatch
  \/ \E j \in 1..Len(jobs), ok \in BOOLEAN : MayFail(ok) /\ ta_settings(j, ok)
  \/ \E j \in 1..Len(jobs), ok \in BOOLEAN : MayFail(ok) /\ sm_settings(j, ok)

SpecDedup == InitDedup /\ [][NextDedup]_vars

\* the state after the handshake carrying S1, the integration configured
InitConfigured == InitWith(ConfiguredSettings, "S1")

\* the reconciler, under concurrent deliveries
NextReconcile ==
  Delivery(ReconcilePosts, 2) \/ Dispatch \/ Assignment
    \/ MentionSteps(TaskStories) \/ Creation(MaxConvs) \/ SessionEnds

SpecReconcile == InitConfigured /\ [][NextReconcile]_vars

\* the mapping file, under concurrent deliveries for two tasks
NextMapping ==
  DeliveryOf(MappingEvents, MappingPosts, 2) \/ Dispatch \/ Assignment
    \/ MentionSteps(ReporterStories) \/ Creation(MaxConvs) \/ SessionEnds

SpecMapping == InitConfigured /\ [][NextMapping]_vars

\* the reporter: one delivery at a time, the agents running, a restart
NextReporter ==
  Delivery(ReporterPosts, 1) \/ SecretLoaded(1) \/ Dispatch
    \/ Assignment \/ MentionSteps(ReporterStories) \/ Creation(ReporterConvs) \/ ScanReport
    \/ AgentRuns \/ Restarts

SpecReporter == InitConfigured /\ [][NextReporter]_vars

\* the reporter under fair scheduling: every background task that can take a
\* step takes one (the event loop runs each task that is ready), and the
\* event stream hands every event to the subscribed callback; the server
\* process keeps running and no session is closed
\* the agent runs and stops: the state changes it may add to its stream
LiveEvents == {ASCO("running"), ASCO("finished")}

AgentRunsLive ==
  \/ \E c \in 1..Len(convs), e \in LiveEvents :
       Len(convs[c].stream) < MaxStream /\ agent_event(c, e)
  \/ \E c \in 1..Len(convs) : callback(c)
  \/ \E c \in 1..Len(convs), ok \in BOOLEAN : MayFail(ok) /\ callback_report(c, ok)

NextLive ==
  Delivery(ReporterPosts, 1) \/ Dispatch
    \/ Assignment \/ MentionSteps(ReporterStories) \/ Creation(ReporterConvs) \/ ScanReport
    \/ AgentRunsLive

BackgroundSteps ==
  Dispatch \/ Assignment \/ MentionSteps(ReporterStories) \/ Creation(ReporterConvs)
    \/ ScanReport

CallbackSteps ==
  \/ \E c \in 1..Len(convs) : callback(c)
  \/ \E c \in 1..Len(convs), ok \in BOOLEAN : MayFail(ok) /\ callback_report(c, ok)

SpecLive ==
  /\ InitConfigured
  /\ [][NextLive]_vars
  /\ WF_vars(BackgroundSteps)
  /\ WF_vars(CallbackSteps)

\* the webhook management routes, one request at a time
WebhookRoutes ==
  \/ route.n < AdminRequests /\ create_webhook
  \/ route.n < AdminRequests /\ delete_webhook
  \/ \E kind \in CallResults : MayFail(kind = "ok") /\ client_get_webhooks(kind)
  \/ \E kind \in CallResults : MayFail(kind = "ok") /\ client_delete_webhook(kind)
  \/ \E kind \in CallResults, secret \in {"S2", EmptyStr} :
       MayFail(kind = "ok") /\ client_create_webhook(kind, secret)
  \/ \E ok \in BOOLEAN : MayFail(ok) /\ settings_store(ok)

\* the values of OPENHANDS_BASE_URL
BaseUrls ==
  { DefaultBaseUrl,
    <<"http://", "127.0.0.1", ":3000">>,
    <<"http://", "[::1]", ":3000">>,
    <<"https://", "oh.example.com">> }

\* the settings of the user: complete, or with one of the three values missing
AdminSettings ==
  { ConfiguredSettings,
    [ConfiguredSettings EXCEPT !.asana_access_token = None],
    [ConfiguredSettings EXCEPT !.asana_workspace_gid = EmptyStr],
    [ConfiguredSettings EXCEPT !.asana_project_gid = None] }

\* a webhook registered earlier for the target
Registered(target) ==
  WebhookOf(WebhookCreateRequest("P1", target, CreateFilters))

\* what Asana holds at the start: nothing, one webhook of this instance, or
\* two of this instance around one of another instance
Registries(base_url) ==
  LET mine == Registered(TargetUrl(base_url))
      other == Registered(TargetUrl(<<"https://", "other.example.com">>))
  IN {<<>>, <<mine>>, <<other>>, <<mine, other, mine>>}

InitWebhooks ==
  \E s \in AdminSettings, b \in BaseUrls :
    \E registered \in Registries(b) : InitState(s, EmptyStr, registered, b)

SpecWebhooks == InitWebhooks /\ [][WebhookRoutes]_vars

\* the pieces of an agent's last message
MessagePieces ==
  { Text(<<"w">>), Text(<<" ">>), Text(GidChars(AgentGid)),
    Mention(AgentGid), Mention("312"), Mention("45"),
    ProfileLink(AgentGid), Url(AgentGid), Url("45"), MdLink(AgentGid) }

SeqsUpTo(S, n) == UNION {[1..m -> S] : m \in 0..n}

\* the result's text is formatted, for an agent user id configured or not
Formatting ==
  \E last_message \in SeqsUpTo(MessagePieces, MaxPieces),
     agent_user_gid \in {AgentGid, None} :
    format_agent_result(last_message, agent_user_gid)

SpecFormatter == InitConfigured /\ [][Formatting]_vars

\* the integration's own result comment comes back as a story event:
\* report_result posts <body>formatted_message, metrics</body> (the body tags
\* and the metrics hold no user id), Asana delivers story S1 for it, and
\* get_story returns the comment that was posted
PostedStory ==
  StoryOf("comment_added", <<Text(formatted.formatted_message)>>,
          formatted.formatted_message, "T1")

\* report_result formats the agent's last message with the configured agent id
ResultPosted ==
  \E last_message \in SeqsUpTo(MessagePieces, MaxPieces) :
    /\ formatted = NotFormatted
    /\ format_agent_result(last_message, settings.asana_agent_user_gid)

OwnCommentSteps ==
  \/ \E j \in 1..Len(jobs), ok \in BOOLEAN : MayFail(ok) /\ sm_settings(j, ok)
  \/ \E j \in 1..Len(jobs), ok \in BOOLEAN :
       MayFail(ok) /\ formatted # NotFormatted /\ sm_fetch(j, ok, PostedStory)
  \/ \E j \in 1..Len(jobs), ok \in BOOLEAN, okAdd \in BOOLEAN :
       MayFail2(ok, okAdd) /\ sm_like(j, ok, okAdd)
  \/ \E j \in 1..Len(jobs), ok \in BOOLEAN : MayFail(ok) /\ sm_ctx_task(j, ok)
  \/ \E j \in 1..Len(jobs), ok \in BOOLEAN, all_stories \in ReporterStories :
       MayFail(ok) /\ sm_ctx_stories(j, ok, all_stories)

NextOwnComment ==
  ResultPosted \/ DeliveryOf({StoryS1}, 1, 1) \/ Dispatch \/ OwnCommentSteps
    \/ Creation(ReporterConvs)

SpecOwnComment == InitConfigured /\ [][NextOwnComment]_vars

\* everything at once
Next ==
  Request(EndpointPosts, MaxConvs) \/ SecretLoaded(MaxConvs) \/ Dispatch
    \/ Assignment \/ MentionSteps(TaskStories) \/ Creation(MaxConvs)
    \/ ScanReport \/ AgentRuns \/ SessionEnds \/ Restarts \/ WebhookRoutes
    \/ Formatting

Spec == Init /\ [][Next]_vars

\* ===================================================================== claims
\* a request without X-Hook-Secret and without X-Hook-Signature was answered
Unsigned(r) ==
  r.status # 0 /\ ~Truthy(r.x_hook_secret) /\ r.x_hook_signature = NoSig

\* a request with X-Hook-Signature and without X-Hook-Secret
SignedOnly(r) == ~Truthy(r.x_hook_secret) /\ r.x_hook_signature # NoSig

\* the step is the one in which asana_webhook answers a request
Answered ==
  \/ nPosts' = nPosts + 1 /\ pending' = pending
  \/ Len(pending') < Len(pending) /\ nHostOps' = nHostOps

C3_OneAttemptPerKey ==
  \A k \in DOMAIN attempts : attempts[k] <= 1

\* C4: once the handlers that inserted keys have finished, the dedup set holds
\* at most _MAX_PROCESSED_EVENTS keys.
C4_DedupBounded ==
  jobs = <<>> => Cardinality(_processed_events) <= _MAX_PROCESSED_EVENTS

\* the live conversations this integration created for task t
LiveConvsOf(t) == {c \in 1..Len(convs) : convs[c].task = t /\ convs[c].live}

\* C5: in every reachable state, interleaved runs for the same task and failed
\* message deliveries included, at most one live conversation created by the
\* integration exists per task id.
C5_OneLiveConversationPerTask ==
  \A t \in TaskGids : Cardinality(LiveConvsOf(t)) <= 1

\* job j's run of process_task_assignment has taken the step of the mapping lookup
LookupStep(j) ==
  Len(jobs') = Len(jobs) /\ At(j, "ta_like") /\ jobs'[j].p.pc # "ta_like"

\* the mapping entry of task t points to a conversation that still exists
MappedLive(t) == mapping[t] # 0 /\ convs[mapping[t]].live

\* C6: when process_task_assignment looks up a task whose mapping entry points
\* to a conversation that still exists, it creates no conversation, posts no
\* pinned comment, leaves the mapping unchanged and returns the mapped id.
C6_IdempotentReassignment ==
  /\ [][ \A j \in 1..Len(jobs) :
           (LookupStep(j) /\ MappedLive(jobs[j].p.task_gid))
           => /\ jobs'[j].p.pc = "done"
              /\ jobs'[j].p.result = mapping[jobs[j].p.task_gid]
              /\ UNCHANGED <<mapping, convs, comments, _active_listeners, listeners>>
       ]_vars
  /\ [](\A j \in 1..Len(jobs) :
          (jobs[j].p.story_gid = None /\ jobs[j].p.existing # 0)
          => /\ jobs[j].p.pc = "done"
             /\ jobs[j].p.result = jobs[j].p.existing
             /\ jobs[j].p.created = 0
             /\ jobs[j].p.pinned = 0)

\* C6 witness: a second assignment event for a task mapped to a live
\* conversation has returned that conversation
C6_Witness ==
  \E j \in 1..Len(jobs) :
    /\ jobs[j].p.story_gid = None /\ jobs[j].p.pc = "done"
    /\ jobs[j].p.existing # 0
    /\ jobs[j].p.result = mapping[jobs[j].p.task_gid]
    /\ convs[jobs[j].p.result].live

\* the run p of process_story_mention has fetched a comment whose HTML text
\* does not contain the configured agent identifier
NotMentioned(p) ==
  /\ p.story_gid # None
  /\ p.pc \notin {"start", "sm_settings", "sm_fetch"}
  /\ Truthy(p.agent)
  /\ ~Contains(Raw(p.html), GidChars(p.agent))

\* C7: for a comment whose HTML text does not contain the configured agent
\* identifier, process_story_mention creates no conversation, delivers no
\* message, issues no like, and leaves the mapping and the listeners unchanged.
C7_MentionGating ==
  /\ [](\A j \in 1..Len(jobs) :
          NotMentioned(jobs[j].p)
          => /\ jobs[j].p.pc = "done"
             /\ jobs[j].p.result = 0
             /\ ~jobs[j].p.liked
             /\ jobs[j].p.created = 0
             /\ ~jobs[j].p.delivered)
  /\ [][ \A j \in 1..Len(jobs) :
           (Len(jobs') = Len(jobs) /\ At(j, "sm_fetch") /\ NotMentioned(jobs'[j].p))
           => UNCHANGED <<mapping, _active_listeners, listeners, convs, comments>>
       ]_vars

\* C7 witness: a comment mentioning another user only has been fetched and
\* the run has returned
C7_Witness ==
  \E j \in 1..Len(jobs) :
    /\ NotMentioned(jobs[j].p)
    /\ jobs[j].p.html = <<Mention("45"), Text(<<"w">>)>>
    /\ jobs[j].p.pc = "done"

\* the number of comments of the bag that lie in S
RECURSIVE CountIn(_)
CountIn(S) ==
  IF S = {} THEN 0
  ELSE LET x == CHOOSE y \in S : TRUE IN comments[x] + CountIn(S \ {x})

\* result comments posted for the state at index i of conversation c's stream
ResultCount(c, i) ==
  CountIn({x \in DOMAIN comments : x.kind = "result" /\ x.conv = c /\ x.ev = i})

\* result comments posted for conversation c within its a-th arming
ArmCount(c, a) ==
  CountIn({x \in DOMAIN comments : x.kind = "result" /\ x.conv = c /\ x.arm = a})

\* C8: a terminal state that fires before subscribe_to_conversation_events has
\* completed gets exactly one result comment.  Stated for the runs in which
\* nothing fails and the server does not restart: once the scan has reported
\* the terminal state it found and the callback is idle, one result comment
\* exists for that state.
C8_TerminalRaceOneComment ==
  \A j \in 1..Len(jobs) :
    LET p == jobs[j].p
    IN ( /\ nFail = 0 /\ nHostOps = 0
         /\ p.found # 0
         /\ p.pc \in {"ta_pin", "done"}
         /\ get_agent_session(p.conv)
         /\ convs[p.conv].busy = 0 )
       => ResultCount(p.conv, p.found) = 1

\* C9: between two consecutive (re-)armings of a conversation's listener at
\* most one result comment is posted for the conversation, by the callback
\* and the catch-up scan together.
C9_OneCommentPerArming ==
  \A c \in 1..Len(convs) : \A a \in 0..convs[c].arms : ArmCount(c, a) <= 1

\* m is a follow-up message of conversation c delivered by the run that
\* re-created the listener, and i the first terminal state after it
FirstTerminalAfter(c, m, i) ==
  LET st == convs[c].stream
  IN /\ m > 1 /\ m < i /\ i <= Len(st)
     /\ st[m] = UserMsg
     /\ IsTerminalEvent(st[i])
     /\ \A k \in (m + 1)..(i - 1) : ~IsTerminalEvent(st[k])

\* C10: after the mention protocol has delivered a follow-up message into a
\* live mapped conversation, the first terminal state reached after the
\* message produces a result comment.  Stated for a listener that had to be
\* re-created after a restart, in runs where nothing fails: once the callback
\* subscribed before the message has been handed that terminal state and is
\* idle, a result comment for it exists.
C10_RearmedAfterMessage ==
  \A c \in 1..Len(convs) : \A m, i \in 1..Len(convs[c].stream) :
    ( /\ nFail = 0 /\ nHostOps = 1
      /\ get_agent_session(c)
      /\ FirstTerminalAfter(c, m, i)
      /\ convs[c].sub # 0
      /\ convs[c].subAt > 1 /\ convs[c].subAt < m
      /\ \A k \in (convs[c].subAt + 1)..(m - 1) : convs[c].stream[k] # UserMsg
      /\ convs[c].cursor >= i
      /\ convs[c].busy = 0 )
    => ResultCount(c, i) >= 1

\* job j's run of process_task_assignment has stored the mapping and issued
\* the pinned comment in this step
MappingStoredStep(j) ==
  /\ Len(jobs') = Len(jobs)
  /\ Running(j)
  /\ jobs[j].p.story_gid = None
  /\ jobs[j].p.pc # "ta_pin"
  /\ jobs'[j].p.pc = "ta_pin"

\* a run of process_task_assignment for an unmapped task assigned to the
\* agent has returned, and no external call has failed
AssignedUnmappedDone(p) ==
  /\ p.story_gid = None /\ p.pc = "done"
  /\ p.liked /\ p.existing = 0
  /\ nFail = 0

\* C11: for an unmapped task assigned to the agent, with every external call
\* succeeding, one task changed event creates exactly one conversation, stores
\* the mapping task -> that conversation and posts exactly one pinned comment
\* with that conversation's URL.
C11_AssignmentCreatesOne ==
  /\ [](\A j \in 1..Len(jobs) :
          AssignedUnmappedDone(jobs[j].p)
          => /\ jobs[j].p.created # 0
             /\ jobs[j].p.result = jobs[j].p.created
             /\ convs[jobs[j].p.created].task = jobs[j].p.task_gid
             /\ jobs[j].p.pinned = 1
             /\ BagCount(comments, Comment(jobs[j].p.task_gid, jobs[j].p.created,
                                           "pinned", 0, 0)) >= 1)
  /\ [][ \A j \in 1..Len(jobs) :
           MappingStoredStep(j)
           => /\ jobs'[j].p.created # 0
              /\ mapping' = [mapping EXCEPT ![jobs[j].p.task_gid] = jobs'[j].p.created]
       ]_vars

\* C11 witness: the run has returned the conversation it created, the mapping
\* holds it and the pinned comment exists
C11_Witness ==
  \E j \in 1..Len(jobs) :
    /\ AssignedUnmappedDone(jobs[j].p)
    /\ jobs[j].p.created # 0
    /\ mapping[jobs[j].p.task_gid] = jobs[j].p.created
    /\ jobs[j].p.pinned = 1
    /\ Len(convs) = 1

\* what the handshake does with the request answered in this step
HandshakeEffect ==
  /\ webhook_secrets' = resp'.x_hook_secret
  /\ resp'.status = 200
  /\ resp'.echo = resp'.x_hook_secret
  /\ resp'.queued = 0
  /\ UNCHANGED <<jobs, pending, _processed_events, mapping, _active_listeners,
                 listeners>>

\* C12 as stated: a POST carrying X-Hook-Secret with any value S stores S,
\* is answered 200 with header X-Hook-Secret = S, schedules no event and leaves
\* the dedup set, the mapping and the listeners unchanged, whatever the body.
C12_HandshakeAnyValue ==
  [][ (Answered /\ resp'.x_hook_secret # None) => HandshakeEffect ]_vars

\* C12 amended: a POST carrying X-Hook-Secret with a non-empty value S stores
\* S, is answered 200 with header X-Hook-Secret = S, schedules no event and
\* leaves the dedup set, the mapping and the listeners unchanged, whatever
\* the body and whatever signature header it carries.
C12_Handshake ==
  [][ (Answered /\ resp'.x_hook_secret \notin {None, EmptyStr})
      => HandshakeEffect ]_vars

\* C12 witness: the first request is a handshake carrying S2 and a body with
\* an event; the secret is stored and echoed, nothing is scheduled
C12_Witness ==
  /\ nPosts = 1
  /\ resp.x_hook_secret = "S2" /\ resp.body = Body(<<TaskT1>>)
  /\ resp.status = 200 /\ resp.echo = "S2"
  /\ webhook_secrets = "S2"
  /\ jobs = <<>> /\ pending = <<>>

\* the request answered is a delivery (no handshake) that the endpoint accepted
AcceptedDelivery(r) ==
  ~Truthy(r.x_hook_secret) /\ r.status = 200 /\ r.body.ok

\* C13: for an accepted delivery with n >= 1 events the endpoint schedules
\* exactly n background tasks, one per event in the order of the list and
\* whatever the events are, and answers 200 with queued = n; the response is
\* made in the answering step and no step of the background processing
\* changes it.
C13_QueuedCount ==
  /\ [][ (Answered /\ AcceptedDelivery(resp') /\ resp'.body.events # <<>>)
         => /\ resp'.queued = Len(resp'.body.events)
            /\ jobs' = Append(jobs, NewJob(resp'.body.events))
            /\ UNCHANGED <<_processed_events, attempts>>
       ]_vars
  /\ [][ resp' # resp => Answered ]_vars

\* C13 witness: a delivery with two events of different resource types was
\* answered 200 with queued = 2, and both tasks are scheduled
C13_Witness ==
  /\ AcceptedDelivery(resp)
  /\ resp.body = Body(<<TaskT1, StoryS1>>)
  /\ resp.queued = 2
  /\ Len(jobs) = 1 /\ jobs[1] = NewJob(<<TaskT1, StoryS1>>)

\* the request answered is a delivery (no handshake) that passed the
\* signature step and carries a well-formed payload
PassedVerification(r) ==
  ~Truthy(r.x_hook_secret) /\ r.status # 401 /\ r.body.ok

\* C14: an accepted delivery whose events list is empty (a heartbeat) is
\* answered 200 and schedules no background task; the dedup set, the mapping
\* and the listeners are unchanged.
C14_Heartbeat ==
  [][ (Answered /\ PassedVerification(resp') /\ resp'.body.events = <<>>)
      => /\ resp'.status = 200
         /\ resp'.queued = 0
         /\ UNCHANGED <<jobs, _processed_events, attempts, mapping,
                        _active_listeners, listeners>>
    ]_vars

\* C14 witness: a heartbeat signed under the stored secret was answered 200
C14_Witness ==
  /\ SignedOnly(resp)
  /\ resp.body = Body(<<>>)
  /\ resp.x_hook_signature = Sig(HmacSha256("S1", Body(<<>>)))
  /\ resp.status = 200 /\ resp.queued = 0
  /\ nPosts = 1 /\ jobs = <<>>

\* job j's background task has run process_webhook_event up to its first
\* await or to its end in this step
RoutedStep(j) ==
  Len(jobs') = Len(jobs) /\ At(j, "start") /\ jobs'[j].p.pc # "start"

IsAssignmentEvent(e) == e.resource_type = "task" /\ e.action = "changed"
IsMentionEvent(e) == e.resource_type = "story" /\ e.action = "added"

\* C15: background processing invokes the assignment protocol only for
\* (task, changed) events and the mention protocol only for (story, added)
\* events; for every other combination it invokes no reconciler and leaves
\* the dedup set, the mapping and the listeners unchanged.
C15_Routing ==
  [][ \A j \in 1..Len(jobs) :
        RoutedStep(j) =>
          LET e == Head(jobs[j].queue)
          IN /\ jobs'[j].p.pc = "ta_settings" => IsAssignmentEvent(e)
             /\ jobs'[j].p.pc = "sm_settings" => IsMentionEvent(e)
             /\ jobs'[j].p.pc \in {"ta_settings", "sm_settings", "done"}
             /\ (~IsAssignmentEvent(e) /\ ~IsMentionEvent(e))
                => /\ jobs'[j].p.pc = "done"
                   /\ UNCHANGED <<_processed_events, attempts, mapping,
                                  _active_listeners, listeners>>
    ]_vars

\* C15 witness: a (story, changed) event has been processed to the end
\* without a reconciler call and without a dedup key
C15_Witness ==
  /\ Len(jobs) = 1
  /\ jobs[1].p.pc = "done"
  /\ Head(jobs[1].queue) = Ev("changed", "story", "S1", "T1", "t1")
  /\ _processed_events = {} /\ attempts = <<>>

\* a call of an external collaborator has failed in this step
FailureStep == nFail' > nFail

FailsAt(j, pc) ==
  Len(jobs') = Len(jobs) /\ At(j, pc) /\ jobs'[j].p.pc # pc /\ FailureStep

\* the run of job j is given up in this step: nothing is created or stored,
\* and the run returns None (at once, or after the error comment)
AbortedStep(j) ==
  /\ jobs'[j].p.pc \in {"done", "ta_errcomment"}
  /\ jobs'[j].p.pc = "ta_errcomment" => jobs[j].p.story_gid = None
  /\ jobs'[j].p.pc = "done" => jobs'[j].p.result = 0
  /\ jobs'[j].p.created = jobs[j].p.created
  /\ UNCHANGED <<mapping, convs, _active_listeners, listeners>>

\* the step that follows the error comment of a failed creation
AfterErrorComment(j) ==
  Len(jobs') = Len(jobs) /\ At(j, "ta_errcomment") /\ jobs'[j].p.pc # "ta_errcomment"

\* C17 as stated: in both protocols a failed fetch of the task or the comment,
\* or a failed conversation creation, gives the event up: no conversation is
\* created afterwards, the mapping is unchanged and no id is returned.
C17_AnyFetchAborts ==
  [][ \A j \in 1..Len(jobs) :
        /\ (\E pc \in {"ta_fetch", "sm_fetch", "sm_ctx_task", "create"} : FailsAt(j, pc))
             => AbortedStep(j)
        /\ AfterErrorComment(j) => AbortedStep(j) /\ jobs'[j].p.pc = "done"
    ]_vars

\* C17: a failed get_task of the assignment protocol, a failed get_story of
\* the mention protocol and a failed conversation creation of either give the
\* event up: no conversation is created afterwards, the mapping is unchanged
\* and no id is returned. (The fetch of the task for the context message of a
\* mention is not among them.)
C17_FetchOrCreateAborts ==
  [][ \A j \in 1..Len(jobs) :
        /\ (\E pc \in {"ta_fetch", "sm_fetch", "create"} : FailsAt(j, pc))
             => AbortedStep(j)
        /\ AfterErrorComment(j) => AbortedStep(j) /\ jobs'[j].p.pc = "done"
    ]_vars

\* C17 witness: the conversation creation of a mention on an unmapped task
\* failed and the run has returned without a conversation
C17_Witness ==
  \E j \in 1..Len(jobs) :
    /\ nFail = 1
    /\ jobs[j].p.story_gid # None /\ jobs[j].p.pc = "done"
    /\ jobs[j].p.liked /\ jobs[j].p.existing = 0 /\ jobs[j].p.created = 0
    /\ jobs[j].p.result = 0
    /\ Len(convs) = 0 /\ \A t \in DOMAIN mapping : mapping[t] = 0

\* job j leaves pc in this step
StepAt(j, pc) == Len(jobs') = Len(jobs) /\ At(j, pc) /\ jobs'[j].p.pc # pc

\* the mapping after a lookup of task t: a live entry is kept, a stale one
\* is dropped, nothing else changes
LookupLeaves(t) ==
  /\ MappedLive(t) => mapping' = mapping
  /\ ~MappedLive(t) => mapping' = [mapping EXCEPT ![t] = 0]

\* C18: the acknowledgment like and the pinned comment are best effort: the
\* step in which like_task, like_story or the pinned add_comment returns has
\* the same outcome whether the call succeeded or failed. After the like the
\* run goes on exactly as the mapping says (the mapped live conversation, or a
\* creation), and is never given up; after the pinned comment the run returns
\* the conversation it created, and the mapping and the conversation stay.
C18_BestEffortSideActions ==
  [][ \A j \in 1..Len(jobs) :
        /\ StepAt(j, "ta_like") =>
             LET t == jobs[j].p.task_gid
             IN /\ LookupLeaves(t)
                /\ UNCHANGED <<convs, comments>>
                /\ IF MappedLive(t)
                     THEN jobs'[j].p.pc = "done" /\ jobs'[j].p.result = mapping[t]
                     ELSE jobs'[j].p.pc = "create"
        /\ StepAt(j, "sm_like") =>
             LET t == jobs[j].p.task_gid
             IN /\ LookupLeaves(t)
                /\ comments' = comments
                /\ IF MappedLive(t)
                     THEN /\ jobs'[j].p.pc \in {"done", "sub_sleep", "sm_ctx_task"}
                          /\ jobs'[j].p.pc = "done"
                               => jobs'[j].p.result = mapping[t] /\ jobs'[j].p.delivered
                          /\ jobs'[j].p.pc = "sm_ctx_task"
                               => mapping[t] \in DOMAIN _active_listeners
                     ELSE jobs'[j].p.pc = "sm_ctx_task" /\ convs' = convs
        /\ StepAt(j, "ta_pin") =>
             /\ jobs'[j].p.pc = "done"
             /\ jobs[j].p.created # 0
             /\ jobs'[j].p.result = jobs[j].p.created
             /\ jobs'[j].p.created = jobs[j].p.created
             /\ UNCHANGED <<mapping, convs, _active_listeners, listeners>>
    ]_vars

\* C18 witness: an assignment has returned the conversation it created and
\* mapped although its pinned comment could not be posted
C18_Witness ==
  \E j \in 1..Len(jobs) :
    LET p == jobs[j].p
    IN /\ p.story_gid = None /\ p.pc = "done"
       /\ nFail = 1 /\ p.pinned = 0
       /\ p.created # 0 /\ p.result = p.created
       /\ mapping[p.task_gid] = p.created
       /\ BagCount(comments, Comment(p.task_gid, p.created, "pinned", 0, 0)) = 0

\* C19: with an agent user id configured, a run of process_task_assignment
\* that fetched a task whose assignee is another user, or nobody, ends in the
\* step of the fetch: it issues no like, creates no conversation, posts no
\* comment, leaves the mapping unchanged and returns None.
C19_AssigneeMismatchNoOp ==
  [][ \A j \in 1..Len(jobs) :
        (/\ StepAt(j, "ta_fetch")
         /\ ~FailureStep
         /\ jobs[j].p.agent \notin {None, EmptyStr}
         /\ jobs'[j].p.assignee # jobs[j].p.agent)
        => /\ jobs'[j].p.pc = "done"
           /\ jobs'[j].p.result = 0
           /\ ~jobs'[j].p.liked
           /\ jobs'[j].p.created = 0 /\ jobs'[j].p.pinned = 0
           /\ UNCHANGED <<mapping, convs, comments, _active_listeners, listeners>>
    ]_vars

\* C19 witness: a task assigned to somebody else and an unassigned task have
\* both been processed to the end, with nothing liked, created or posted
C19_Witness ==
  /\ Len(jobs) = 2
  /\ \A j \in 1..2 :
       /\ jobs[j].p.pc = "done" /\ jobs[j].p.story_gid = None
       /\ jobs[j].p.agent = AgentGid
       /\ ~jobs[j].p.liked /\ jobs[j].p.result = 0
  /\ jobs[1].p.assignee = "45" /\ jobs[2].p.assignee = None
  /\ nFail = 0
  /\ Len(convs) = 0 /\ comments = <<>>

\* the callback of conversation c is handed the next event of the stream
CallbackStep(c) ==
  /\ Len(convs') = Len(convs)
  /\ convs[c].sub # 0 /\ convs'[c].sub = convs[c].sub
  /\ convs'[c].cursor = convs[c].cursor + 1

\* an agent-state-changed notification whose new state is terminal
TerminalNotification(e) ==
  e.k = "state"
    /\ e.v \in {"finished", "stopped", "error", "rejected", "awaiting_user_input"}

\* C20: the callback of a listener changes the reported flag and starts a
\* report only when it is handed an agent-state-changed notification whose
\* new state is finished, stopped, error, rejected or awaiting_user_input;
\* any other event, and a state change to a non-terminal or invalid value,
\* leaves every listener as it was and starts no report. The callback posts
\* nothing by itself, and every report under way and every result comment
\* posted is for a terminal state change of the conversation's stream.
C20_OnlyTerminalStatesReported ==
  /\ [][ \A c \in 1..Len(convs) :
           CallbackStep(c) =>
             LET e == convs[c].stream[convs[c].cursor + 1]
             IN /\ comments' = comments
                /\ ~TerminalNotification(e)
                     => listeners' = listeners /\ convs'[c].busy = 0
                /\ listeners' # listeners
                     => /\ TerminalNotification(e)
                        /\ ~listeners[convs[c].sub]._reported
                        /\ listeners'[convs[c].sub]._reported
       ]_vars
  /\ [](\A c \in 1..Len(convs) :
          convs[c].busy # 0 => TerminalNotification(convs[c].stream[convs[c].busy]))
  /\ [](\A x \in DOMAIN comments :
          x.kind = "result" => TerminalNotification(convs[x.conv].stream[x.ev]))

\* C20 witness: a listener subscribed right after the creation has been handed
\* an invalid state value, a non-terminal state and then a terminal state: it
\* is marked reported, and the one result comment is for the terminal state
C20_Witness ==
  \E c \in 1..Len(convs), j \in 1..Len(jobs) :
    /\ jobs[j].p.created = c /\ jobs[j].p.pc = "done" /\ jobs[j].p.found = 0
    /\ convs[c].stream = <<UserMsg, ASCO("invalid"), ASCO("running"), ASCO("finished")>>
    /\ convs[c].sub # 0 /\ convs[c].subAt = 1
    /\ convs[c].cursor = 4 /\ convs[c].busy = 0
    /\ listeners[convs[c].sub]._reported
    /\ ResultCount(c, 4) = 1
    /\ \A i \in 1..3 : ResultCount(c, i) = 0

LoopbackHosts == {"localhost", "127.0.0.1", "[::1]"}

\* the URL's host is a loopback address
IsLoopback(url) == \E i \in 1..Len(url) : url[i] \in LoopbackHosts

\* the settings lack the access token, the workspace or the project
Unconfigured ==
  \/ settings.asana_access_token \in {None, EmptyStr}
  \/ settings.asana_workspace_gid \in {None, EmptyStr}
  \/ settings.asana_project_gid \in {None, EmptyStr}

\* C22: POST webhook/create answers 400, calls Asana for nothing (no list, no
\* deletion, no creation) and writes no settings when the access token, the
\* workspace id or the project id is not configured, or when the callback
\* URL is a loopback address.
C22_CreateRejected ==
  (route.op = "create" /\ (Unconfigured \/ IsLoopback(TargetUrl(route.base_url))))
  => /\ route.pc = "answered"
     /\ route.status = 400
     /\ route.calls = 0 /\ route.writes = 0

\* POST webhook/create has answered with success
CreateSucceeded == route.op = "create" /\ route.pc = "answered" /\ route.status = 200

\* the webhooks that targeted this instance before the request are deleted,
\* and the one webhook that targets it now is the new one, on the configured
\* project with the filters task/changed/[assignee] and story/added
ReplacedByNew ==
  /\ \A g \in route.before : ~webhooks[g].live
  /\ route.created \in 1..Len(webhooks)
  /\ route.created \notin route.before
  /\ {g \in 1..Len(webhooks) :
        webhooks[g].live /\ webhooks[g].target = route.base_url \o <<"/api/webhooks/asana">>}
       = {route.created}
  /\ webhooks[route.created].resource = settings.asana_project_gid
  /\ webhooks[route.created].filters =
       << [resource_type |-> "task", action |-> "changed", fields |-> <<"assignee">>],
          [resource_type |-> "story", action |-> "added", fields |-> None] >>

\* C23 as stated: after POST webhook/create has succeeded, the webhooks that
\* targeted this instance are deleted, the new webhook exists, and the secret
\* that came with it is the persisted webhook secret.
C23_CreateStoresSecret ==
  CreateSucceeded
  => /\ ReplacedByNew
     /\ settings.asana_webhook_secret = route.secret

\* C23: after POST webhook/create has succeeded, the webhooks that targeted
\* this instance are deleted and the new webhook exists; when the answer of
\* the creation carried a secret, that secret is the persisted webhook secret
\* (without one the request succeeds all the same and nothing is written).
C23_CreateReplacesWebhook ==
  CreateSucceeded
  => /\ ReplacedByNew
     /\ route.secret \notin {None, EmptyStr}
          => settings.asana_webhook_secret = route.secret /\ route.writes = 1
     /\ route.secret \in {None, EmptyStr} => route.writes = 0

\* C23 witness: two webhooks of this instance and one of another instance
\* were registered; the creation succeeded, the two are gone, the other one
\* is still there, and the new secret S2 is persisted
C23_Witness ==
  /\ CreateSucceeded
  /\ route.before = {1, 3} /\ route.created = 4
  /\ ~webhooks[1].live /\ webhooks[2].live /\ ~webhooks[3].live /\ webhooks[4].live
  /\ route.secret = "S2" /\ settings.asana_webhook_secret = "S2"

\* DELETE webhook has answered
DeleteAnswered(status) ==
  route.op = "delete" /\ route.pc = "answered" /\ route.status = status

\* the step in which DELETE webhook gives its answer
DeleteAnswers(status) ==
  /\ route.op = "delete" /\ route.pc # "answered"
  /\ route'.op = "delete" /\ route'.pc = "answered" /\ route'.status = status

\* C24: when DELETE webhook has succeeded, every webhook that targeted this
\* instance's callback URL is deleted (at least one was), no other webhook is
\* touched, and the persisted webhook secret has been cleared in the
\* answering step, after the deletions; when no webhook targets the URL the
\* answer is 404, nothing is deleted and the persisted secret is unchanged.
C24_DeleteWebhook ==
  /\ [](DeleteAnswered(200)
          => /\ route.before # {}
             /\ \A g \in route.before : ~webhooks[g].live
             /\ \A g \in 1..Len(webhooks) :
                  webhooks[g].target # route.base_url \o <<"/api/webhooks/asana">>
                    => webhooks[g].live
             /\ settings.asana_webhook_secret = None
             /\ route.writes = 1)
  /\ [](DeleteAnswered(404) => route.before = {} /\ route.writes = 0 /\ route.calls = 1)
  /\ [][DeleteAnswers(200)
          => /\ settings'.asana_webhook_secret = None
             /\ webhooks' = webhooks
             /\ \A g \in route.before : ~webhooks[g].live]_vars
  /\ [][DeleteAnswers(404) => UNCHANGED <<settings, webhooks>>]_vars
  /\ [][(route.op = "delete" /\ route'.op = "delete"
           /\ (route.before = {} \/ ~DeleteAnswers(200)))
          => settings' = settings]_vars

\* C24 witness: two webhooks of this instance and one of another instance
\* were registered and a secret was persisted; the deletion succeeded, the two
\* are gone, the other one stays, the persisted secret is cleared
C24_Witness ==
  /\ DeleteAnswered(200)
  /\ route.before = {1, 3} /\ Len(webhooks) = 3
  /\ ~webhooks[1].live /\ webhooks[2].live /\ ~webhooks[3].live
  /\ settings.asana_webhook_secret = None
  /\ route.n = 1

\* C25: whenever the agent's last message mentions the agent user id (as
\* mention markup, as a URL, as a markdown link or as a bare occurrence of the
\* identifier), the output of markdown_to_asana_html holds no occurrence of
\* the id.
C25_NoSelfMention ==
  (/\ formatted.agent_user_gid = AgentGid
   /\ Contains(Raw(formatted.last_message), GidChars(AgentGid)))
  => ~Contains(formatted.formatted_message, GidChars(AgentGid))

\* the stories of subtype comment_added other than the triggering one, in the
\* order of the list
RECURSIVE PriorComments(_, _)
PriorComments(stories, trigger) ==
  IF stories = <<>> THEN <<>>
  ELSE LET rest == PriorComments(Tail(stories), trigger)
       IN IF Head(stories).resource_subtype = "comment_added"
               /\ Head(stories).gid # trigger
            THEN <<Head(stories)>> \o rest
            ELSE rest

\* a run of process_story_mention returns in this step
MentionReturns(j) ==
  /\ Len(jobs') = Len(jobs) /\ Running(j)
  /\ jobs[j].p.story_gid # None
  /\ jobs[j].p.pc # "done" /\ jobs'[j].p.pc = "done"

\* C26: a qualifying mention on a task without a live mapped conversation,
\* with every external call succeeding, creates one conversation (the run's
\* creation step adds one conversation, and the run had created none before),
\* whose context lists exactly the task's stories of subtype comment_added
\* other than the triggering story, in the order returned; the run stores
\* the mapping task -> new conversation and returns the new id.
C26_MentionCreatesWithContext ==
  /\ [][ \A j \in 1..Len(jobs) :
           (StepAt(j, "create") /\ jobs[j].p.story_gid # None /\ ~FailureStep)
           => /\ jobs[j].p.created = 0
              /\ Len(convs') = Len(convs) + 1
              /\ jobs'[j].p.created = Len(convs')
              /\ convs'[Len(convs')].task = jobs[j].p.task_gid
              /\ convs'[Len(convs')].context
                   = PriorComments(jobs[j].p.all_stories, jobs[j].p.story_gid)
       ]_vars
  /\ [][ \A j \in 1..Len(jobs) :
           (MentionReturns(j) /\ jobs'[j].p.created # 0)
           => /\ mapping'[jobs'[j].p.task_gid] = jobs'[j].p.created
              /\ jobs'[j].p.result = jobs'[j].p.created
              /\ convs'[jobs'[j].p.created].context
                   = PriorComments(jobs'[j].p.all_stories, jobs'[j].p.story_gid)
       ]_vars
  /\ [](\A j \in 1..Len(jobs) :
          (/\ jobs[j].p.pc = "done" /\ jobs[j].p.story_gid # None
           /\ jobs[j].p.liked /\ jobs[j].p.existing = 0 /\ nFail = 0)
          => jobs[j].p.created # 0 /\ jobs[j].p.result = jobs[j].p.created)

\* C26 witness: a mention S1 on the unmapped task T1 has returned the
\* conversation it created; the task's stories were a comment S0, a system
\* story S9 and S1 itself, and the context lists S0 alone
C26_Witness ==
  \E j \in 1..Len(jobs) :
    LET p == jobs[j].p
    IN /\ p.pc = "done" /\ p.story_gid = "S1" /\ nFail = 0
       /\ p.existing = 0 /\ p.created # 0 /\ p.result = p.created
       /\ Len(p.all_stories) = 3
       /\ convs[p.created].context = <<[gid |-> "S0", resource_subtype |-> "comment_added"]>>
       /\ mapping[p.task_gid] = p.created

\* the place of an await of process_task_assignment in the order of the run:
\* settings, task fetch (with the assignee check on its return), like (with
\* the mapping lookup on its return), conversation creation, subscription,
\* mapping store on the way to the pinned comment, return
StepRank(pc) ==
  CASE pc = "start" -> 0
    [] pc = "ta_settings" -> 1
    [] pc = "ta_fetch" -> 2
    [] pc = "ta_like" -> 3
    [] pc = "create" -> 4
    [] pc = "created" -> 5
    [] pc = "ta_errcomment" -> 5
    [] pc = "sub_sleep" -> 6
    [] pc = "sub_report" -> 7
    [] pc = "ta_pin" -> 8
    [] OTHER -> 9

\* job j, a run of process_task_assignment, makes a step
AssignmentStep(j) ==
  /\ Len(jobs') = Len(jobs) /\ Running(j)
  /\ jobs[j].p.story_gid = None
  /\ jobs[j].p.pc \notin {"start", "done"}
  /\ jobs'[j].p # jobs[j].p

\* C27: within one run of process_task_assignment the steps come strictly in
\* the order task fetch, assignee check, like, mapping lookup, conversation
\* creation, mapping store, pinned comment: every step of the run moves it
\* forward to a later await (one await at a time); the like is issued only on
\* the return of a successful fetch with a matching assignee, the lookup only
\* on the return of the like, the conversation is created only after the
\* lookup, the mapping is stored only after the creation and before the
\* pinned comment, and after a failed fetch or a mismatching assignee the run
\* returns at once.
C27_AssignmentOrder ==
  [][ \A j \in 1..Len(jobs) :
        AssignmentStep(j) =>
          LET p == jobs[j].p
              q == jobs'[j].p
          IN /\ StepRank(q.pc) > StepRank(p.pc)
             /\ q.liked # p.liked
                  => /\ p.pc = "ta_fetch" /\ q.pc = "ta_like" /\ ~FailureStep
                     /\ (p.agent \in {None, EmptyStr} \/ q.assignee = p.agent)
             /\ q.existing # p.existing => p.pc = "ta_like"
             /\ q.pc = "create" => p.pc = "ta_like" /\ p.liked
             /\ q.created # p.created => p.pc = "create" /\ p.created = 0
             /\ q.pc = "ta_pin"
                  => /\ p.pc \in {"created", "sub_sleep", "sub_report"}
                     /\ p.created # 0 /\ p.pinned = 0
                     /\ mapping'[p.task_gid] = p.created
             /\ q.pinned # p.pinned => p.pc = "ta_pin" /\ q.pc = "done"
             /\ (p.pc = "ta_fetch" /\ q.pc # "ta_like")
                  => q.pc = "done" /\ ~q.liked /\ q.created = 0 /\ q.pinned = 0
    ]_vars

\* C27 witness: one run has gone through all the steps: liked, nothing
\* mapped, a conversation created and subscribed once, the mapping stored,
\* the pinned comment posted, the conversation returned
C27_Witness ==
  /\ Len(jobs) = 1 /\ nFail = 0 /\ nHostOps = 0
  /\ LET p == jobs[1].p
     IN /\ p.story_gid = None /\ p.pc = "done"
        /\ p.liked /\ p.existing = 0 /\ p.created = 1 /\ p.pinned = 1 /\ p.result = 1
        /\ p.lis # 0 /\ convs[1].arms = 1
        /\ mapping[p.task_gid] = 1
        /\ BagCount(comments, Comment(p.task_gid, 1, "pinned", 0, 0)) = 1

\* job j has passed the dedup check for the event at the head of its queue
\* and is inside the reconciler
InReconciler(j) == Running(j) /\ jobs[j].p.pc \notin {"start", "done"}

\* C28: the dedup check-then-insert is atomic with respect to the other
\* background tasks: of two background tasks that process events with the
\* same dedup key concurrently, one passes the check and calls the reconciler,
\* the other does not: never are both inside the reconciler.
C28_OnePassesCheck ==
  \A j1 \in 1..Len(jobs), j2 \in 1..Len(jobs) :
    (/\ j1 # j2
     /\ Head(jobs[j1].queue).resource_type = Head(jobs[j2].queue).resource_type
     /\ Head(jobs[j1].queue).gid = Head(jobs[j2].queue).gid
     /\ Head(jobs[j1].queue).created_at = Head(jobs[j2].queue).created_at)
    => ~(InReconciler(j1) /\ InReconciler(j2))

\* C29: the persisted mapping is one-to-one in every reachable state: no
\* conversation id is the mapped value of two different task ids, whatever
\* assignment events, mention events, stale-entry removals and
\* remove_conversation_mapping calls came before.
C29_MappingOneToOne ==
  \A t1 \in DOMAIN mapping, t2 \in DOMAIN mapping :
    (t1 # t2 /\ mapping[t1] # 0) => mapping[t1] # mapping[t2]

\* two tasks are mapped, each to its own conversation
C29_Witness ==
  /\ mapping["T1"] # 0
  /\ mapping["T2"] # 0
  /\ convs[mapping["T1"]].task = "T1"
  /\ convs[mapping["T2"]].task = "T2"

\* job j takes the step in which get_conversation_for_task returns, in
\* process_task_assignment or in process_story_mention
GetConversationStep(j) == StepAt(j, "ta_like") \/ StepAt(j, "sm_like")

\* C30: get_conversation_for_task(t) returns a conversation id only if the
\* mapping holds that id for t and the host has a live session for it; if the
\* mapped session is missing it removes exactly the entry of t, leaves every
\* other entry unchanged and returns none; if t has no entry the mapping is
\* unchanged.
C30_GetConversationForTask ==
  [][\A j \in 1..Len(jobs) :
       GetConversationStep(j) =>
         LET t == jobs'[j].p.task_gid
             returned == jobs'[j].p.existing
         IN /\ returned # 0 => (mapping[t] = returned /\ convs[returned].live)
            /\ (mapping[t] # 0 /\ ~convs[mapping[t]].live) =>
                 /\ returned = 0
                 /\ mapping'[t] = 0
                 /\ \A u \in DOMAIN mapping \ {t} : mapping'[u] = mapping[u]
            /\ mapping[t] = 0 => mapping' = mapping]_vars

\* a lookup of T1 has found the session of its conversation closed and has
\* removed T1's entry; the entry of T2 is still there
C30_Witness ==
  /\ Len(jobs) = 1
  /\ jobs[1].p.task_gid = "T1"
  /\ jobs[1].p.pc \in {"create", "sm_ctx_task"}
  /\ jobs[1].p.existing = 0
  /\ nFail = 0
  /\ nHostOps = 1
  /\ \E c \in 1..Len(convs) : convs[c].task = "T1" /\ ~convs[c].live
  /\ mapping["T1"] = 0
  /\ mapping["T2"] # 0

\* the step is a call of remove_conversation_mapping (a session close changes
\* the conversation)
RemoveStep == nHostOps' = nHostOps + 1 /\ convs' = convs

\* C31: remove_conversation_mapping(c) removes the mapping entry whose value
\* is c (if any) and the active listener of c (if any), leaves every other
\* mapping entry and listener unchanged, and returns true exactly when a
\* mapping entry was removed; no other operation removes a listener from the
\* active-listener map.
C31_RemoveConversationMapping ==
  [][/\ RemoveStep =>
          LET c == removed'.conversation_id
          IN /\ \A t \in DOMAIN mapping :
                  mapping'[t] = IF mapping[t] = c THEN 0 ELSE mapping[t]
             /\ DOMAIN _active_listeners' = DOMAIN _active_listeners \ {c}
             /\ \A x \in DOMAIN _active_listeners' :
                  _active_listeners'[x] = _active_listeners[x]
             /\ listeners' = listeners
             /\ removed'.ret <=> mapping' # mapping
     /\ ~RemoveStep =>
          \A x \in DOMAIN _active_listeners :
            x \in DOMAIN _active_listeners' /\ _active_listeners'[x] = _active_listeners[x]
    ]_vars

\* the conversation of T1 has been removed from the mapping and its listener
\* from the active listeners, the call has returned true; the entry and the
\* listener of T2's conversation are still there
C31_Witness ==
  /\ removed.conversation_id # 0
  /\ removed.ret
  /\ convs[removed.conversation_id].task = "T1"
  /\ mapping["T1"] = 0
  /\ mapping["T2"] # 0
  /\ removed.conversation_id \notin DOMAIN _active_listeners
  /\ mapping["T2"] \in DOMAIN _active_listeners

\* the listener whose callback is attached to the stream of conversation c is
\* the one _active_listeners holds for c
AttachedIsActive(c) ==
  convs[c].sub # 0 =>
    (c \in DOMAIN _active_listeners /\ _active_listeners[c] = convs[c].sub)

\* C32: in every reachable state a conversation has at most one listener whose
\* callback is attached to its event stream (the callback id is the
\* conversation's, so the stream holds at most one), and that listener is the
\* one held in the active-listener map; a follow-up message into a
\* conversation that has a listener keeps it and resets its reported flag.
C32_AttachedListenerIsActive ==
  \A c \in 1..Len(convs) : get_agent_session(c) => AttachedIsActive(c)

\* event i of the stream of conversation c is a terminal state change, the
\* first since the message that armed or re-armed the listener
FirstTerminalSinceArmed(c, i) ==
  /\ c \in 1..Len(convs)
  /\ i \in 1..Len(convs[c].stream)
  /\ IsTerminalEvent(convs[c].stream[i])
  /\ \E m \in 1..(i - 1) :
       /\ convs[c].stream[m] = UserMsg
       /\ \A k \in (m + 1)..(i - 1) : ~IsTerminalEvent(convs[c].stream[k])

\* a result comment for conversation c that reports event i or a later one
ResultPostedSince(c, i) ==
  \E x \in DOMAIN comments :
    x.kind = "result" /\ x.conv = c /\ x.ev >= i /\ x.task = convs[c].task

\* C33: under fair scheduling and with every call succeeding, whenever a
\* conversation created by the assignment or the mention protocol reaches a
\* terminal agent state for the first time since its listener was armed or
\* re-armed, a result comment is eventually posted to the conversation's task.
C33_TerminalStateReported ==
  \A c \in 1..ReporterConvs : \A i \in 1..(MaxStream + 2) :
    FirstTerminalSinceArmed(c, i) ~> (ResultPostedSince(c, i) \/ nFail > 0)

\* C34: a comment posted by the integration never drives the mention
\* protocol: when the story-added event of the integration's own result
\* comment is processed, no message is delivered and no conversation is
\* created, whatever the agent's message was.
C34_NoFeedbackLoop ==
  /\ convs = <<>>
  /\ \A j \in 1..Len(jobs) :
       jobs[j].p.pc \in {"start", "sm_settings", "sm_fetch", "done"}
         /\ ~jobs[j].p.delivered /\ jobs[j].p.created = 0

\* C35: process_story_mention posts a reply comment with the conversation
\* link on the task whenever it returns a conversation id (conversation
\* created or reused), as step 6 of its docstring states.
C35_MentionPostsReply ==
  \A j \in 1..Len(jobs) :
    (jobs[j].p.story_gid # None /\ jobs[j].p.pc = "done" /\ jobs[j].p.result # 0)
      => jobs[j].p.pinned > 0

\* the indexes of the agent-state changes in a stream
StateChanges(stream) == {i \in 1..Len(stream) : stream[i].k = "state"}

\* C36: the catch-up scan of subscribe_to_conversation_events reports at once
\* only when the most recent agent-state change of the conversation is a
\* terminal state: an older terminal state followed by a later non-terminal
\* state change causes no immediate report and does not mark the listener as
\* reported.
C36_ScanReportsLatestState ==
  [][\A j \in 1..Len(jobs) :
       (StepAt(j, "sub_sleep") /\ jobs'[j].p.found # 0) =>
         LET stream == convs[jobs[j].p.conv].stream
         IN /\ StateChanges(stream) # {}
            /\ stream[SetMax(StateChanges(stream))].v \in TERMINAL_STATES]_vars

\* the callback of conversation c starts a report in this step
ReportStarts(c) ==
  Len(convs') = Len(convs) /\ convs[c].busy = 0 /\ convs'[c].busy # 0

\* the report started by the callback of c ends in this step without a comment
ReportAbandoned(c) ==
  /\ Len(convs') = Len(convs)
  /\ convs[c].busy # 0 /\ convs'[c].busy = 0
  /\ comments' = comments

\* C37: a listener sets its reported flag before it attempts the post, so
\* when the post fails or exceeds its 60 s budget the flag stays set and the
\* host conversation is not cancelled; a notification starts a report only
\* for a listener whose flag is not set, and the flag of a listener is
\* cleared by send_message_to_conversation alone.
C37_FlagSetBeforePost ==
  [][/\ \A c \in 1..Len(convs) :
          /\ ReportStarts(c) =>
               /\ ~listeners[convs[c].sub]._reported
               /\ listeners'[convs[c].sub]._reported
          /\ ReportAbandoned(c) =>
               /\ listeners' = listeners
               /\ convs'[c].live = convs[c].live
               /\ convs'[c].stream = convs[c].stream
     /\ \A l \in 1..Len(listeners) :
          (listeners[l]._reported /\ ~listeners'[l]._reported) =>
            \E j \in 1..Len(jobs) :
              StepAt(j, "sm_like") /\ jobs'[j].p.conv = listeners[l].conversation_id
    ]_vars

\* a post has failed: the listener of a live conversation is marked, a second
\* terminal state has been handed to its callback, and no result comment of
\* the conversation exists
C37_Witness ==
  \E c \in 1..Len(convs) :
    /\ jobs = <<>>
    /\ get_agent_session(c)
    /\ convs[c].sub # 0 /\ convs[c].busy = 0
    /\ listeners[convs[c].sub]._reported
    /\ nFail = 1
    /\ convs[c].cursor = Len(convs[c].stream)
    /\ \E i1, i2 \in (convs[c].subAt + 1)..Len(convs[c].stream) :
         i1 < i2 /\ IsTerminalEvent(convs[c].stream[i1])
                 /\ IsTerminalEvent(convs[c].stream[i2])
    /\ \A x \in DOMAIN comments : ~(x.kind = "result" /\ x.conv = c)

\* C38: in the mention protocol, when a live mapped conversation exists but
\* the delivery of the message into it fails, the protocol does not stop: it
\* creates a new conversation for the task and overwrites the task's mapping
\* entry with the new id, and the conversation mapped before is no longer
\* reachable through the mapping.  Stated at the return of the run, the
\* failed delivery being the only failure.
C38_FailedDeliveryCreatesNew ==
  [][\A j \in 1..Len(jobs) :
       (/\ MentionReturns(j)
        /\ jobs'[j].p.existing # 0
        /\ ~jobs'[j].p.delivered
        /\ nFail' = 1) =>
         LET p == jobs'[j].p
         IN /\ p.created # 0
            /\ p.created # p.existing
            /\ p.result = p.created
            /\ mapping'[p.task_gid] = p.created
            /\ \A t \in DOMAIN mapping : mapping'[t] # p.existing]_vars

\* a mention run has found a live mapped conversation, has failed to deliver
\* into it, and has returned the conversation it created, now mapped; the
\* conversation mapped before is still live
C38_Witness ==
  \E j \in 1..Len(jobs) :
    LET p == jobs[j].p
    IN /\ p.story_gid # None /\ p.pc = "done"
       /\ p.existing # 0 /\ ~p.delivered
       /\ p.created # 0 /\ p.result = p.created
       /\ mapping[p.task_gid] = p.created
       /\ get_agent_session(p.existing)
       /\ nFail = 1

\* job j's run has created a conversation and returned it
CreatedAndReturned(j) ==
  /\ jobs[j].p.pc = "done"
  /\ jobs[j].p.created # 0
  /\ jobs[j].p.result = jobs[j].p.created

\* C39: no mapping update is lost between different tasks: when the
\* reconciliations of two different task ids run concurrently and each
\* creates a conversation, the mapping holds both entries after both have
\* finished (no entry having been removed since), and the step of a run
\* changes no entry but that of its own task.
C39_NoLostUpdate ==
  /\ [](\A j1 \in 1..Len(jobs), j2 \in 1..Len(jobs) :
          (/\ jobs[j1].p.task_gid # jobs[j2].p.task_gid
           /\ CreatedAndReturned(j1) /\ CreatedAndReturned(j2)
           /\ nHostOps = 0)
          => /\ mapping[jobs[j1].p.task_gid] = jobs[j1].p.created
             /\ mapping[jobs[j2].p.task_gid] = jobs[j2].p.created)
  /\ [][\A j \in 1..Len(jobs) :
          (Len(jobs') = Len(jobs) /\ jobs'[j] # jobs[j]) =>
            \A t \in DOMAIN mapping :
              t # jobs'[j].p.task_gid => mapping'[t] = mapping[t]]_vars

\* the runs for T1 and T2 have overlapped, each has created a conversation
\* and returned, and both entries are in the mapping
C39_Witness ==
  /\ Len(jobs) = 2
  /\ CreatedAndReturned(1) /\ CreatedAndReturned(2)
  /\ jobs[1].p.task_gid # jobs[2].p.task_gid
  /\ mapping[jobs[1].p.task_gid] = jobs[1].p.created
  /\ mapping[jobs[2].p.task_gid] = jobs[2].p.created

\* the step answers a request that carries a non-empty X-Hook-Secret
HandshakeStep == Answered /\ Truthy(resp'.x_hook_secret)

\* the step answers, from the secret in memory, a delivery that arrives: a
\* signature and no X-Hook-Secret
DeliveryAnswered ==
  nPosts' = nPosts + 1 /\ Truthy(webhook_secrets) /\ SignedOnly(resp')

\* C40: the in-memory webhook secret changes only through a handshake or a
\* cold load (the load made for a delivery that finds no secret in memory),
\* and a handshake always replaces it: a request with X-Hook-Secret is
\* answered 200 as a handshake whatever signature it carries, a secret in
\* memory is changed by a handshake only, and a delivery arriving while a
\* secret is in memory is accepted exactly when it is signed under that
\* secret, so that after a handshake with S2 a delivery signed under S1 is
\* answered 401 and one signed under S2 is accepted.
C40_HandshakeReplacesSecret ==
  [][ /\ HandshakeStep =>
           webhook_secrets' = resp'.x_hook_secret /\ resp'.status = 200
      /\ (webhook_secrets' # webhook_secrets /\ ~HandshakeStep) =>
           ~Truthy(webhook_secrets)
      /\ DeliveryAnswered =>
           (resp'.status = 401 <=>
              resp'.x_hook_signature
                # Sig(HmacSha256(webhook_secrets, resp'.body))) ]_vars

====
